---- MODULE Spec2Model ----
(***************************************************************************)
(* Bezier geometry of houjing-bezier: evaluation, De Casteljau split,      *)
(* inverse merge, sequential merge and nearest-point search.               *)
(*                                                                         *)
(* Numbers.  An f64 is modelled by an exact rational <<n, d>> in lowest    *)
(* terms with d > 0, or by one of the three non-finite values              *)
(* <<0, 0>> (NaN), <<1, 0>> (+inf), <<-1, 0>> (-inf).  Arithmetic follows  *)
(* IEEE-754 on the non-finite values (0/0 = NaN, x/0 = +-inf, inf - inf =  *)
(* NaN, every ordered comparison with NaN is false).  Rounding error and   *)
(* the sign of zero are not modelled: every zero is +0.0, which is what    *)
(* x - x and a vector length produce in the code.                          *)
(***************************************************************************)
EXTENDS Integers, Sequences, FiniteSets, TLC

(***************************************************************************)
(* Rational arithmetic                                                     *)
(***************************************************************************)
Abs(i) == IF i < 0 THEN -i ELSE i

Sgn(i) == IF i < 0 THEN -1 ELSE IF i > 0 THEN 1 ELSE 0

RECURSIVE GCD(_, _)
GCD(a, b) == IF b = 0 THEN a ELSE GCD(b, a % b)

NaN == <<0, 0>>

PosInf == <<1, 0>>

NegInf == <<-1, 0>>

IsNaN(x) == x = NaN

IsInf(x) == x[2] = 0 /\ x[1] # 0

IsFinite(x) == x[2] # 0

\* n/d in lowest terms with a positive denominator (d # 0)
Norm(n, d) ==
    LET g == GCD(Abs(n), Abs(d))
        s == IF d < 0 THEN -1 ELSE 1
    IN  <<s * (n \div g), s * (d \div g)>>

QI(i) == <<i, 1>>

QZero == QI(0)

QOne == QI(1)

QSign(x) == Sgn(x[1])

QNeg(x) == <<-x[1], x[2]>>

QAbs(x) == <<Abs(x[1]), x[2]>>

QAdd(x, y) ==
    IF IsNaN(x) \/ IsNaN(y) THEN NaN
    ELSE IF IsInf(x) /\ IsInf(y) THEN (IF x = y THEN x ELSE NaN)
    ELSE IF IsInf(x) THEN x
    ELSE IF IsInf(y) THEN y
    ELSE LET g == GCD(x[2], y[2])
             l == (x[2] \div g) * y[2]
         IN  Norm(x[1] * (y[2] \div g) + y[1] * (x[2] \div g), l)

QSub(x, y) == QAdd(x, QNeg(y))

QMul(x, y) ==
    IF IsNaN(x) \/ IsNaN(y) THEN NaN
    ELSE IF IsInf(x) \/ IsInf(y)
         THEN (IF QSign(x) * QSign(y) = 0 THEN NaN
               ELSE <<QSign(x) * QSign(y), 0>>)
    ELSE LET g1 == GCD(Abs(x[1]), y[2])
             g2 == GCD(Abs(y[1]), x[2])
         IN  Norm((x[1] \div g1) * (y[1] \div g2), (x[2] \div g2) * (y[2] \div g1))

\* x / y; a zero divisor is +0.0
QDiv(x, y) ==
    IF IsNaN(x) \/ IsNaN(y) THEN NaN
    ELSE IF IsInf(y) THEN (IF IsInf(x) THEN NaN ELSE QZero)
    ELSE IF y[1] = 0 THEN (IF x[1] = 0 THEN NaN ELSE <<QSign(x), 0>>)
    ELSE IF IsInf(x) THEN <<QSign(x) * QSign(y), 0>>
    ELSE QMul(x, Norm(y[2], y[1]))

\* a/b < c/d for a, c >= 0 and b, d > 0, by continued-fraction expansion
RECURSIVE LtPos(_, _, _, _)
LtPos(a, b, c, d) ==
    IF a \div b # c \div d THEN a \div b < c \div d
    ELSE IF c % d = 0 THEN FALSE
    ELSE IF a % b = 0 THEN TRUE
    ELSE LtPos(d, c % d, b, a % b)

\* x < y, false when either is NaN
QLt(x, y) ==
    IF IsNaN(x) \/ IsNaN(y) THEN FALSE
    ELSE IF IsInf(x) \/ IsInf(y)
         THEN (IF IsInf(x) /\ IsInf(y) THEN x[1] < y[1]
               ELSE IF IsInf(x) THEN x[1] < 0
               ELSE y[1] > 0)
    ELSE IF QSign(x) # QSign(y) THEN QSign(x) < QSign(y)
    ELSE IF QSign(x) = 0 THEN FALSE
    ELSE IF QSign(x) > 0 THEN LtPos(x[1], x[2], y[1], y[2])
    ELSE LtPos(-y[1], y[2], -x[1], x[2])

QGt(x, y) == QLt(y, x)

QLe(x, y) == ~IsNaN(x) /\ ~IsNaN(y) /\ ~QLt(y, x)

\* f64::max and f64::min on numbers that are not NaN
QMax(x, y) == IF QLt(x, y) THEN y ELSE x

QMin(x, y) == IF QLt(y, x) THEN y ELSE x

(***************************************************************************)
(* Point: data/point.rs                                                    *)
(***************************************************************************)
Pt(x, y) == <<QI(x), QI(y)>>

PAdd(p, q) == <<QAdd(p[1], q[1]), QAdd(p[2], q[2])>>

PSub(p, q) == <<QSub(p[1], q[1]), QSub(p[2], q[2])>>

\* Point * f64 and f64 * Point
PMul(p, s) == <<QMul(p[1], s), QMul(p[2], s)>>

\* Point / f64
PDiv(p, s) == <<QDiv(p[1], s), QDiv(p[2], s)>>

Lerp(p, q, t) ==
    <<QAdd(p[1], QMul(t, QSub(q[1], p[1]))), QAdd(p[2], QMul(t, QSub(q[2], p[2])))>>

LengthSquared(p) == QAdd(QMul(p[1], p[1]), QMul(p[2], p[2]))

\* FLOAT_TOLERANCE = 1e-10, written as the exponent of ten
FLOAT_TOLERANCE_EXP == 10

RECURSIVE CeilDivPow10(_, _)
CeilDivPow10(d, k) == IF k = 0 THEN d ELSE CeilDivPow10((d + 9) \div 10, k - 1)

\* |x| < 10^-k
AbsLtPow10(x, k) == IsFinite(x) /\ Abs(x[1]) < CeilDivPow10(x[2], k)

\* impl PartialEq for Point
PointEq(p, q) ==
    /\ AbsLtPow10(QSub(p[1], q[1]), FLOAT_TOLERANCE_EXP)
    /\ AbsLtPow10(QSub(p[2], q[2]), FLOAT_TOLERANCE_EXP)

(***************************************************************************)
(* Evaluation: modules/geometry/evaluation.rs                              *)
(***************************************************************************)
evaluate_quadratic_bezier_curve_segment(cp, t) ==
    LET one_minus_t == QSub(QOne, t)
        one_minus_t_sq == QMul(one_minus_t, one_minus_t)
        t_sq == QMul(t, t)
    IN  PAdd(PAdd(PMul(cp[1], one_minus_t_sq),
                  PMul(cp[2], QMul(QMul(QI(2), one_minus_t), t))),
             PMul(cp[3], t_sq))

\* a faulty variant: the third Bernstein weight loses its factor (1 - t)
evaluate_cubic_dropped_factor(cp, t) ==
    LET one_minus_t == QSub(QOne, t)
        one_minus_t_sq == QMul(one_minus_t, one_minus_t)
        one_minus_t_cu == QMul(one_minus_t_sq, one_minus_t)
        t_sq == QMul(t, t)
        t_cu == QMul(t_sq, t)
    IN  PAdd(PAdd(PAdd(PMul(cp[1], one_minus_t_cu),
                       PMul(cp[2], QMul(QMul(QI(3), one_minus_t_sq), t))),
                  PMul(cp[3], QMul(QI(3), t_sq))),
             PMul(cp[4], t_cu))

evaluate_cubic_bezier_curve_segment(cp, t) ==
    LET one_minus_t == QSub(QOne, t)
        one_minus_t_sq == QMul(one_minus_t, one_minus_t)
        one_minus_t_cu == QMul(one_minus_t_sq, one_minus_t)
        t_sq == QMul(t, t)
        t_cu == QMul(t_sq, t)
    IN  PAdd(PAdd(PAdd(PMul(cp[1], one_minus_t_cu),
                       PMul(cp[2], QMul(QMul(QI(3), one_minus_t_sq), t))),
                  PMul(cp[3], QMul(QMul(QI(3), one_minus_t), t_sq))),
             PMul(cp[4], t_cu))

\* the match arm `_ => panic!` of evaluate, split and tangent
Unsupported(cp) == Len(cp) \notin {2, 3, 4}

\* defined when ~Unsupported(cp)
evaluate_bezier_curve_segment(cp, t) ==
    CASE Len(cp) = 2 -> Lerp(cp[1], cp[2], t)
      [] Len(cp) = 3 -> evaluate_quadratic_bezier_curve_segment(cp, t)
      [] Len(cp) = 4 -> evaluate_cubic_bezier_curve_segment(cp, t)

(***************************************************************************)
(* De Casteljau split: modules/geometry/split.rs                           *)
(***************************************************************************)
split_linear_bezier_curve_segment(cp, t) ==
    LET split_point == Lerp(cp[1], cp[2], t)
    IN  <<(<<cp[1], split_point>>), (<<split_point, cp[2]>>)>>

split_quadratic_bezier_curve_segment(cp, t) ==
    LET q0 == Lerp(cp[1], cp[2], t)
        q1 == Lerp(cp[2], cp[3], t)
        split_point == Lerp(q0, q1, t)
    IN  <<(<<cp[1], q0, split_point>>), (<<split_point, q1, cp[3]>>)>>

\* a faulty variant: the right half starts at Lerp(r1, r0, t)
split_cubic_swapped_join(cp, t) ==
    LET q0 == Lerp(cp[1], cp[2], t)
        q1 == Lerp(cp[2], cp[3], t)
        q2 == Lerp(cp[3], cp[4], t)
        r0 == Lerp(q0, q1, t)
        r1 == Lerp(q1, q2, t)
    IN  <<(<<cp[1], q0, r0, Lerp(r0, r1, t)>>), (<<Lerp(r1, r0, t), r1, q2, cp[4]>>)>>

split_cubic_bezier_curve_segment(cp, t) ==
    LET q0 == Lerp(cp[1], cp[2], t)
        q1 == Lerp(cp[2], cp[3], t)
        q2 == Lerp(cp[3], cp[4], t)
        r0 == Lerp(q0, q1, t)
        r1 == Lerp(q1, q2, t)
        split_point == Lerp(r0, r1, t)
    IN  <<(<<cp[1], q0, r0, split_point>>), (<<split_point, r1, q2, cp[4]>>)>>

\* defined when ~Unsupported(cp); <<left, right>>
split_bezier_curve_segment_at_t(cp, t) ==
    CASE Len(cp) = 2 -> split_linear_bezier_curve_segment(cp, t)
      [] Len(cp) = 3 -> split_quadratic_bezier_curve_segment(cp, t)
      [] Len(cp) = 4 -> split_cubic_bezier_curve_segment(cp, t)

(***************************************************************************)
(* Square roots, lengths and angles.  length() is compared through its     *)
(* square; the length ratio la / (la + lb) is 1 / (1 + sqrt(lb^2 / la^2)), *)
(* exact whenever lb^2 / la^2 is the square of a rational (parallel        *)
(* vectors with rational coordinates) and rounded down to 1/SqrtScale      *)
(* otherwise.                                                              *)
(***************************************************************************)
RECURSIVE ISqrtBin(_, _, _)
ISqrtBin(n, lo, hi) ==
    IF hi - lo <= 1 THEN lo
    ELSE LET mid == (lo + hi) \div 2
         IN  IF mid <= n \div mid THEN ISqrtBin(n, mid, hi) ELSE ISqrtBin(n, lo, mid)

\* floor of the square root of n >= 0
ISqrt(n) == IF n < 2 THEN n ELSE ISqrtBin(n, 1, n)

IsSquare(n) == ISqrt(n) * ISqrt(n) = n

SqrtScale == 1000

\* sqrt of a finite x >= 0
QSqrt(x) ==
    IF IsSquare(x[1]) /\ IsSquare(x[2]) THEN <<ISqrt(x[1]), ISqrt(x[2])>>
    ELSE Norm(ISqrt(((x[1] * SqrtScale) \div x[2]) * SqrtScale), SqrtScale)

\* p.length() > tol and p.length() < tol, for tol >= 0
LengthGt(p, tol) == QGt(LengthSquared(p), QMul(tol, tol))

LengthLt(p, tol) == QLt(LengthSquared(p), QMul(tol, tol))

\* a.length() / (a.length() + b.length())
LengthRatio(a, b) ==
    LET sa == LengthSquared(a)
        sb == LengthSquared(b)
    IN  IF IsNaN(sa) \/ IsNaN(sb) THEN NaN
        ELSE IF IsInf(sa) THEN NaN
        ELSE IF IsInf(sb) THEN QZero
        ELSE IF sa[1] = 0 THEN (IF sb[1] = 0 THEN NaN ELSE QZero)
        ELSE QDiv(QOne, QAdd(QOne, QSqrt(QDiv(sb, sa))))

\* the direction atan2 sees: (0, 0) counts as the positive x axis, an
\* infinite component dominates a finite one
AngleDir(p) ==
    IF IsInf(p[1]) \/ IsInf(p[2])
    THEN <<(IF IsInf(p[1]) THEN QI(QSign(p[1])) ELSE QZero),
           (IF IsInf(p[2]) THEN QI(QSign(p[2])) ELSE QZero)>>
    ELSE IF p[1][1] = 0 /\ p[2][1] = 0 THEN <<QOne, QZero>>
    ELSE p

\* to_angle() lies in (-pi, 0)
AngleIsNegative(p) == QSign(p[2]) < 0

\* (a.to_angle() - b.to_angle()).abs() > tol for a small tol: the angles
\* differ by at most tol iff the vectors enclose an angle of at most tol
\* (dot > 0 and |cross| <= tan(tol) * dot, tan(tol) taken as tol) and do not
\* lie on the two sides of the cut of atan2 along the negative x axis
AngleDiffGt(a, b, tol) ==
    LET da == AngleDir(a)
        db == AngleDir(b)
        dot == QAdd(QMul(da[1], db[1]), QMul(da[2], db[2]))
        cross == QSub(QMul(da[1], db[2]), QMul(da[2], db[1]))
        across_cut == AngleIsNegative(a) # AngleIsNegative(b) /\ QSign(da[1]) < 0
    IN  IF IsNaN(a[1]) \/ IsNaN(a[2]) \/ IsNaN(b[1]) \/ IsNaN(b[2]) THEN FALSE
        ELSE ~(QSign(dot) > 0 /\ QLe(QAbs(cross), QMul(tol, dot)) /\ ~across_cut)

(***************************************************************************)
(* Merge: modules/geometry/merge.rs.  Option<Vec<Point>>: None is the      *)
(* empty sequence, Some(v) is v.                                           *)
(***************************************************************************)
None == <<>>

IsSome(m) == m # None

\* the literal 1e-3 of merge.rs
MergeTolerance == <<1, 1000>>

merge_split_linear_curves(l, r) ==
    LET dx1 == QSub(l[2][1], l[1][1])
        dx2 == QSub(r[2][1], r[1][1])
        dy_dx_ratio_1 == QDiv(QSub(l[2][2], l[1][2]), dx1)
        dy_dx_ratio_2 == QDiv(QSub(r[2][2], r[1][2]), dx2)
    IN  IF Len(l) # 2 \/ Len(r) # 2 THEN None
        ELSE IF QLt(QAbs(dx1), MergeTolerance) /\ QLt(QAbs(dx2), MergeTolerance)
             THEN <<l[1], r[2]>>
        ELSE IF QGt(QAbs(QSub(dy_dx_ratio_1, dy_dx_ratio_2)), MergeTolerance) THEN None
        ELSE <<l[1], r[2]>>

merge_split_quadratic_curves(l, r) ==
    LET a0 == l[1]
        a1 == l[2]
        a2 == l[3]
        b0 == r[1]
        b1 == r[2]
        b2 == r[3]
        a1_to_a2 == PSub(a2, a1)
        b0_to_b1 == PSub(b1, b0)
        t == LengthRatio(a1_to_a2, b0_to_b1)
        p1 == PAdd(a0, PDiv(PMul(PSub(a1, a0), QOne), t))
    IN  IF AngleDiffGt(a1_to_a2, b0_to_b1, MergeTolerance) THEN None
        ELSE <<a0, p1, b2>>

merge_split_cubic_curves(l, r) ==
    LET a0 == l[1]
        a1 == l[2]
        a2 == l[3]
        a3 == l[4]
        b0 == r[1]
        b1 == r[2]
        b2 == r[3]
        b3 == r[4]
        a2_to_a3 == PSub(a3, a2)
        b0_to_b1 == PSub(b1, b0)
        t == LengthRatio(a2_to_a3, b0_to_b1)
        a12_ == PAdd(a1, PDiv(PMul(PSub(a2, a1), QOne), t))
        b12_ == PAdd(b2, PDiv(PMul(PSub(b1, b2), QOne), QSub(QOne, t)))
        p1 == PAdd(a0, PDiv(PMul(PSub(a1, a0), QOne), t))
        p2 == PAdd(b3, PDiv(PMul(PSub(b2, b3), QOne), QSub(QOne, t)))
    IN  IF AngleDiffGt(a2_to_a3, b0_to_b1, MergeTolerance) THEN None
        ELSE IF LengthGt(PSub(a12_, b12_), MergeTolerance) THEN None
        ELSE <<a0, p1, p2, b3>>

\* left_curve_points[degree - 1] with degree = 0 is out of bounds
MergePanics(l, r) == Len(l) = Len(r) /\ Len(l) = 0

\* a faulty variant: the C0 continuity check is missing
merge_split_without_continuity(l, r) ==
    IF Len(l) # Len(r) THEN None
    ELSE CASE Len(l) = 2 -> merge_split_linear_curves(l, r)
           [] Len(l) = 3 -> merge_split_quadratic_curves(l, r)
           [] Len(l) = 4 -> merge_split_cubic_curves(l, r)
           [] OTHER -> None

\* defined when ~MergePanics(l, r)
merge_split_bezier_curves(l, r) ==
    IF Len(l) # Len(r) THEN None
    ELSE IF LengthGt(PSub(l[Len(l)], r[1]), MergeTolerance) THEN None
    ELSE CASE Len(l) = 2 -> merge_split_linear_curves(l, r)
           [] Len(l) = 3 -> merge_split_quadratic_curves(l, r)
           [] Len(l) = 4 -> merge_split_cubic_curves(l, r)
           [] OTHER -> None

(***************************************************************************)
(* merge_curves_sequentially: the body of its for loop                     *)
(***************************************************************************)
\* c1[c1.len() - 1] on two empty curves is out of bounds
AttemptPanics(c1, c2) == Len(c1) = Len(c2) /\ Len(c1) = 0

\* merged_curve for the adjacent pair (c1, c2), in either order; defined when
\* ~AttemptPanics(c1, c2)
MergeAttempt(c1, c2) ==
    IF Len(c1) # Len(c2) THEN None
    ELSE IF LengthLt(PSub(c1[Len(c1)], c2[1]), MergeTolerance)
         THEN merge_split_bezier_curves(c1, c2)
    ELSE IF LengthLt(PSub(c2[Len(c2)], c1[1]), MergeTolerance)
         THEN merge_split_bezier_curves(c2, c1)
    ELSE None

\* a faulty variant: splice(i..i + 1, [m]) leaves the second curve in place
SpliceKeepsNext(cs, i, m) == SubSeq(cs, 1, i - 1) \o <<m>> \o SubSeq(cs, i + 1, Len(cs))

\* curves.splice(i..i + 2, [m]), i counted from 1
Splice(cs, i, m) == SubSeq(cs, 1, i - 1) \o <<m>> \o SubSeq(cs, i + 2, Len(cs))

(***************************************************************************)
(* Natural numbers of any size, for comparing distances without overflow:  *)
(* digits to the base 10000, the least significant first, no leading zero.  *)
(***************************************************************************)
RECURSIVE WNat(_)
WNat(n) == IF n = 0 THEN <<>> ELSE <<n % 10000>> \o WNat(n \div 10000)

RECURSIVE WAddCarry(_, _, _)
WAddCarry(a, b, c) ==
    IF a = <<>> /\ b = <<>> THEN (IF c = 0 THEN <<>> ELSE <<c>>)
    ELSE LET x == IF a = <<>> THEN 0 ELSE Head(a)
             y == IF b = <<>> THEN 0 ELSE Head(b)
             ra == IF a = <<>> THEN <<>> ELSE Tail(a)
             rb == IF b = <<>> THEN <<>> ELSE Tail(b)
         IN  <<(x + y + c) % 10000>> \o WAddCarry(ra, rb, (x + y + c) \div 10000)

WAdd(a, b) == WAddCarry(a, b, 0)

\* a * d + c for a digit d >= 1
RECURSIVE WMulDigit(_, _, _)
WMulDigit(a, d, c) ==
    IF a = <<>> THEN (IF c = 0 THEN <<>> ELSE <<c>>)
    ELSE <<(Head(a) * d + c) % 10000>> \o WMulDigit(Tail(a), d, (Head(a) * d + c) \div 10000)

RECURSIVE WMul(_, _)
WMul(a, b) ==
    IF a = <<>> \/ b = <<>> THEN <<>>
    ELSE LET rest == WMul(a, Tail(b))
             shifted == IF rest = <<>> THEN <<>> ELSE <<0>> \o rest
         IN  IF Head(b) = 0 THEN shifted ELSE WAdd(WMulDigit(a, Head(b), 0), shifted)

RECURSIVE WLessFrom(_, _, _)
WLessFrom(a, b, i) ==
    IF i = 0 THEN FALSE
    ELSE IF a[i] # b[i] THEN a[i] < b[i]
    ELSE WLessFrom(a, b, i - 1)

WLess(a, b) == IF Len(a) # Len(b) THEN Len(a) < Len(b) ELSE WLessFrom(a, b, Len(a))

WSquare(n) == WMul(WNat(Abs(n)), WNat(Abs(n)))

(***************************************************************************)
(* Point::distance.  A distance is kept as the vector p - q whose length   *)
(* it is, and two distances are compared through their squares.            *)
(***************************************************************************)
Distance(p, q) == PSub(p, q)

\* the distance d1 is less than the distance d2 (the f64 comparison: false
\* when either is NaN).  No distance is below zero.
DistanceLess(d1, d2) ==
    IF d2 = <<QZero, QZero>> THEN FALSE
    ELSE IF IsNaN(d1[1]) \/ IsNaN(d1[2]) \/ IsNaN(d2[1]) \/ IsNaN(d2[2]) THEN FALSE
    ELSE IF IsInf(d1[1]) \/ IsInf(d1[2]) THEN FALSE
    ELSE IF IsInf(d2[1]) \/ IsInf(d2[2]) THEN TRUE
    ELSE LET sq1 == WAdd(WMul(WSquare(d1[1][1]), WSquare(d1[2][2])),
                         WMul(WSquare(d1[2][1]), WSquare(d1[1][2])))
             sq2 == WAdd(WMul(WSquare(d2[1][1]), WSquare(d2[2][2])),
                         WMul(WSquare(d2[2][1]), WSquare(d2[1][2])))
             den1 == WMul(WSquare(d1[1][2]), WSquare(d1[2][2]))
             den2 == WMul(WSquare(d2[1][2]), WSquare(d2[2][2]))
         IN  WLess(WMul(sq1, den2), WMul(sq2, den1))

(***************************************************************************)
(* Nearest point: modules/geometry/utils.rs,                               *)
(* find_nearest_point_on_bezier_curve_segment.  A candidate is             *)
(* <<best_t, best_point, best_distance>>.                                  *)
(***************************************************************************)
LUT_SIZE == 100

\* 1.0 / LUT_SIZE as f64
LutStep == Norm(1, LUT_SIZE)

\* the literal 0.001 at which the refinement stops
RefineTolerance == <<1, 1000>>

\* a faulty variant: best_t is not updated with the better sample
LutUpdateKeepsT(best, t, curve_point, target) ==
    IF DistanceLess(Distance(target, curve_point), best[3])
    THEN <<best[1], curve_point, Distance(target, curve_point)>>
    ELSE best

\* the body of the sampling loop for the sample at t
LutUpdate(best, t, curve_point, target) ==
    IF DistanceLess(Distance(target, curve_point), best[3])
    THEN <<t, curve_point, Distance(target, curve_point)>>
    ELSE best

\* the candidate before the sampling loop
FirstCandidate(cp, target) ==
    <<QZero, evaluate_bezier_curve_segment(cp, QZero),
      Distance(target, evaluate_bezier_curve_segment(cp, QZero))>>

\* i as f64 / LUT_SIZE as f64
SampleT(i) == Norm(i, LUT_SIZE)

\* left and right before the refinement
RefineLeft(best) == QMax(QSub(best[1], LutStep), QZero)

RefineRight(best) == QMin(QAdd(best[1], LutStep), QOne)

\* the body of `while right - left > tolerance`: <<left, right, best>> after it
RefineStep(cp, target, lo, hi, best) ==
    LET mid1 == QAdd(lo, QDiv(QSub(hi, lo), QI(3)))
        mid2 == QSub(hi, QDiv(QSub(hi, lo), QI(3)))
        point1 == evaluate_bezier_curve_segment(cp, mid1)
        point2 == evaluate_bezier_curve_segment(cp, mid2)
        dist1 == Distance(target, point1)
        dist2 == Distance(target, point2)
    IN  IF DistanceLess(dist1, best[3]) THEN <<lo, mid2, <<mid1, point1, dist1>>>>
        ELSE IF DistanceLess(dist2, best[3]) THEN <<mid1, hi, <<mid2, point2, dist2>>>>
        ELSE <<mid1, mid2, best>>

(***************************************************************************)
(* Segments: data/segment.rs.  A segment is its variant and its points();  *)
(* an Arc's points() are its start and its end.  "slice" is a plain        *)
(* &[Point] handed to the free functions.                                  *)
(***************************************************************************)
SegmentKinds == {"Line", "Quadratic", "Cubic", "Arc"}

\* BezierSegment::points().len() per variant
PointsLen(kind) ==
    CASE kind = "Line" -> 2
      [] kind = "Quadratic" -> 3
      [] kind = "Cubic" -> 4
      [] kind = "Arc" -> 2

(***************************************************************************)
(* Curves: data/curve.rs.  A segment is <<variant, points()>>; a curve is  *)
(* <<segments, is_closed>>.                                                *)
(***************************************************************************)
get_first_point(segments) == segments[1][2][1]

get_last_point(segments) ==
    LET last_segment == segments[Len(segments)]
    IN  last_segment[2][Len(last_segment[2])]

\* a faulty variant: the end of the first segment is taken for the end
is_segments_closed_first_segment(segments) ==
    PointEq(get_first_point(segments), segments[1][2][Len(segments[1][2])])

\* called on non-empty lists only
is_segments_closed(segments) ==
    PointEq(get_first_point(segments), get_last_point(segments))

\* BezierCurve::new
BezierCurve_new(segments) ==
    IF segments = <<>> THEN <<segments, FALSE>>
    ELSE <<segments, is_segments_closed(segments)>>

\* a faulty variant: the closing line is pushed whether needed or not
new_closed_always_pushes(segments) ==
    IF segments = <<>> THEN None
    ELSE <<Append(segments,
                  <<"Line", <<get_last_point(segments), get_first_point(segments)>>>>),
           TRUE>>

\* BezierCurve::new_closed
new_closed(segments) ==
    IF segments = <<>> THEN None
    ELSE IF ~is_segments_closed(segments)
         THEN <<Append(segments,
                       <<"Line", <<get_last_point(segments), get_first_point(segments)>>>>),
                TRUE>>
    ELSE <<segments, TRUE>>

(***************************************************************************)
(* t-heuristics: modules/fit/t_heuristic.rs                                *)
(***************************************************************************)
THeuristic == {"ChordLength", "Uniform", "Centripetal"}

\* Point::distance of two finite points
PointDistance(p, q) == QSqrt(LengthSquared(PSub(p, q)))

\* path_lengths after the loop has run up to index i (counted from 1), the
\* segment length taken as it is or under one more square root
RECURSIVE PathLengths(_, _, _)
PathLengths(points, i, centripetal) ==
    IF i = 1 THEN <<QZero>>
    ELSE LET before == PathLengths(points, i - 1, centripetal)
             distance == PointDistance(points[i], points[i - 1])
             segment_length == IF centripetal THEN QSqrt(distance) ELSE distance
         IN  Append(before, QAdd(before[i - 1], segment_length))

\* the closing map of both length-based heuristics
NormalizeLengths(path_lengths) ==
    LET total_length == path_lengths[Len(path_lengths)]
    IN  [i \in 1..Len(path_lengths) |->
            IF QGt(total_length, QZero) THEN QDiv(path_lengths[i], total_length)
            ELSE QZero]

estimate_t_values_chord_length(points) ==
    IF points = <<>> THEN <<>>
    ELSE IF Len(points) = 1 THEN <<QZero>>
    ELSE NormalizeLengths(PathLengths(points, Len(points), FALSE))

\* a faulty variant: i / len instead of i / (len - 1)
estimate_t_values_uniform_by_len(points) ==
    IF points = <<>> THEN <<>>
    ELSE IF Len(points) = 1 THEN <<QZero>>
    ELSE [i \in 1..Len(points) |-> Norm(i - 1, Len(points))]

estimate_t_values_uniform(points) ==
    IF points = <<>> THEN <<>>
    ELSE IF Len(points) = 1 THEN <<QZero>>
    ELSE [i \in 1..Len(points) |-> Norm(i - 1, Len(points) - 1)]

\* a faulty variant: coincident points are given a ramp
estimate_t_values_centripetal_ramp(points) ==
    IF points = <<>> THEN <<>>
    ELSE IF Len(points) = 1 THEN <<QZero>>
    ELSE LET path_lengths == PathLengths(points, Len(points), TRUE)
         IN  IF QGt(path_lengths[Len(points)], QZero) THEN NormalizeLengths(path_lengths)
             ELSE [i \in 1..Len(points) |-> Norm(i - 1, Len(points) - 1)]

estimate_t_values_centripetal(points) ==
    IF points = <<>> THEN <<>>
    ELSE IF Len(points) = 1 THEN <<QZero>>
    ELSE NormalizeLengths(PathLengths(points, Len(points), TRUE))

\* a faulty variant: every heuristic is answered by the uniform one
estimate_t_values_always_uniform(points, heuristic) == estimate_t_values_uniform(points)

estimate_t_values_with_heuristic(points, heuristic) ==
    CASE heuristic = "ChordLength" -> estimate_t_values_chord_length(points)
      [] heuristic = "Uniform" -> estimate_t_values_uniform(points)
      [] heuristic = "Centripetal" -> estimate_t_values_centripetal(points)

(***************************************************************************)
(* Least-squares fit: modules/fit.  The numbers a fit computes through its *)
(* 4x4 solve (control points, residuals, losses, Gauss-Newton steps,       *)
(* nearest parameters) are not computed here: a segment is kept as the     *)
(* pair it is the least-squares solution of, and every value or comparison *)
(* that depends on its coordinates is a choice of the caller of the        *)
(* operator, taken in the actions from the pools named under Inputs.  What *)
(* the code does with t-values apart from that (clamp, adjust_t_values,    *)
(* length checks, the solvability of the normal equations) is computed.    *)
(***************************************************************************)
FitError == <<"FitError">>

\* f64::clamp(0.0, 1.0) of a finite value
clamp(t) == QMax(QZero, QMin(t, QOne))

\* adjust_t_values on a non-empty array: [0] = 0.0, then [n - 1] = 1.0
adjust_t_values(t_values) ==
    [i \in 1..Len(t_values) |->
        IF i = Len(t_values) THEN QOne
        ELSE IF i = 1 THEN QZero
        ELSE t_values[i]]

\* a_ta.try_inverse() is None: A = CT * B with B invertible and CT the rows
\* (1, t, t^2, t^3), so that det(A^T A) is the sum over the choices of four
\* rows of their squared Vandermonde determinant, zero exactly when no four
\* t-values are pairwise different
NormalEquationsSingular(t_values) ==
    Cardinality({t_values[i] : i \in 1..Len(t_values)}) < 4

\* the segment least_square_solve_p_given_t returns on success
LeastSquaresSegment(points, t_values) == <<"Cubic", points, t_values>>

\* a faulty variant: the singular system is solved all the same
least_square_solve_unchecked_inverse(points, t_values) ==
    IF Len(points) < 4 \/ Len(points) # Len(t_values) THEN FitError
    ELSE LeastSquaresSegment(points, t_values)

least_square_solve_p_given_t(points, t_values) ==
    IF Len(points) < 4 \/ Len(points) # Len(t_values) THEN FitError
    ELSE IF NormalEquationsSingular(t_values) THEN FitError
    ELSE LeastSquaresSegment(points, t_values)

TUpdateMethod == {"NearestPoint", "GaussNewton"}

\* t + step_size * dt, clamped, entry by entry
StepTValues(t_values, delta_t, step_size) ==
    [i \in 1..Len(t_values) |-> clamp(QAdd(t_values[i], QMul(step_size, delta_t[i])))]

\* right - left of the nearest-point refinement around best_t of the table
RefineWidth(best_t) ==
    QSub(QMin(QAdd(best_t, LutStep), QOne), QMax(QSub(best_t, LutStep), QZero))

\* a faulty variant: the interval is not narrowed
RefineWidthsStuck(width) == {width}

\* right - left after one turn of `while right - left > tolerance`: a third
\* is cut off at one end when a better point is found, at both ends otherwise
RefineWidths(width) == {QMul(width, Norm(2, 3)), QMul(width, Norm(1, 3))}

\* the literal 10 handed to find_best_step_size_linesearch
num_steps == 10

\* update_t_values_gauss_newton once get_delta_t has returned delta_t
update_t_values_gauss_newton(t_values, delta_t) ==
    adjust_t_values(StepTValues(t_values, delta_t, QOne))

\* compute_step_loss: the norm of a residual, or the panic of unwrap()
compute_step_loss(points, t_values, delta_t, step_size) ==
    IF least_square_solve_p_given_t(points, StepTValues(t_values, delta_t, step_size)) = FitError
    THEN "panic"
    ELSE "loss"

\* one random variation of generate_t_variations, random_factors being the
\* values normal.sample(&mut rng) returned for its entries
random_t_values(base_t_values, delta_t, random_factors) ==
    adjust_t_values([i \in 1..Len(base_t_values) |->
        clamp(QAdd(base_t_values[i], QMul(random_factors[i], delta_t[i])))])

\* a faulty variant: the points are also reversed when the two distances tie
reorder_control_points_on_tie(p1, p2, p3, p4, start_point) ==
    IF DistanceLess(Distance(start_point, p1), Distance(start_point, p4))
    THEN <<p1, p2, p3, p4>>
    ELSE <<p4, p3, p2, p1>>

\* reorder_control_points(p1, p2, p3, p4, &start_point)
reorder_control_points(p1, p2, p3, p4, start_point) ==
    IF DistanceLess(Distance(start_point, p4), Distance(start_point, p1))
    THEN <<p4, p3, p2, p1>>
    ELSE <<p1, p2, p3, p4>>

\* a faulty variant: the loop never stops on the tolerance
ToleranceBreakNever(within) == FALSE

\* `if all_points_within_tolerance(&segment, points, tolerance) { break; }`
\* at the head of a turn of the fitting loops
ToleranceBreak(within) == within

\* compute_residual(points, t_values, segment).norm(), kept as the term of
\* its arguments: two losses of the same arguments are the same number
residual_norm(points, t_values, segment) == <<"norm", points, t_values, segment>>

\* whether a < b can hold for two losses, `smaller` being the pairs <<x, y>>
\* with x < y already decided: not for equal losses, not against the order
LossCanBeLess(a, b, smaller) == a # b /\ <<b, a>> \notin smaller

(***************************************************************************)
(* Inputs                                                                  *)
(***************************************************************************)
MaxCoord == 1

TDen == 4

\* control points: x up to MaxCoord, y on two levels
Grid == {Pt(x, y) : x \in 0..MaxCoord, y \in {0, 1}}

SeqsOfLen(S, n) == [1..n -> S]

\* control points of the BezierSegment variants
SegmentPoints == {Pt(0, 0), Pt(1, 0), Pt(1, 1)}

\* slices of every supported length, and of the lengths 0, 1 and 5
Slices ==
    UNION {SeqsOfLen(Grid, n) : n \in 0..4} \cup SeqsOfLen({Pt(0, 0), Pt(1, 1)}, 5)

\* parameters inside, on the ends of, and outside [0, 1]
TParams ==
    {Norm(kd[1], kd[2]) : kd \in {x \in (0..TDen) \X (2..TDen) : x[1] <= x[2]}}
        \cup {Norm(-1, 2), Norm(3, 2)}

MaxPairCoord == 1

\* x coordinates of the merge inputs: the integers, and two offsets at and
\* below the tolerance 1e-3
PairXs == {QI(x) : x \in 0..MaxPairCoord} \cup {<<1, 2000>>, <<1, 1000>>}

PairGrid == {<<x, QI(y)>> : x \in PairXs, y \in {0, 1}}

QuadPoints == {Pt(0, 0), Pt(1, 0), Pt(2, 0), Pt(2, 1)}

CubicPoints == {Pt(0, 0), Pt(1, 0), Pt(1, 1)}

PairCurves ==
    SeqsOfLen(PairGrid, 2) \cup SeqsOfLen(QuadPoints, 3) \cup SeqsOfLen(CubicPoints, 4)
        \cup {<<>>, <<Pt(0, 0)>>}

\* the lists handed to merge_curves_sequentially: up to MaxCurves curves, each
\* a piece of the x axis, a corner, a half of a split quadratic, or empty
MaxCurves == 3

AxisPieces == 3

HalfPoint(x, y) == <<Norm(x, 2), QI(y)>>

CurvePool ==
    {<<Pt(k - 1, 0), Pt(k, 0)>> : k \in 1..AxisPieces}
        \cup {<<Pt(1, 0), Pt(1, 1)>>,
              <<Pt(0, 0), HalfPoint(1, 1), Pt(1, 1)>>,
              <<Pt(1, 1), HalfPoint(3, 1), Pt(2, 0)>>,
              <<>>}

CurveLists == UNION {SeqsOfLen(CurvePool, n) : n \in 0..MaxCurves}

\* the segments handed to nearest_point: lines, an Arc between the same ends,
\* open and closed quadratics and cubics that start at the origin, and
\* slices of the lengths 0, 1 and 5
NearLines ==
    {<<Pt(0, 0), Pt(10, 0)>>, <<Pt(0, 0), Pt(0, 1)>>, <<Pt(0, 0), Pt(3, 4)>>}

NearQuadratics ==
    {<<Pt(0, 0), Pt(1, 2), Pt(2, 0)>>, <<Pt(0, 0), Pt(1, 1), Pt(0, 0)>>}

NearCubics ==
    {<<Pt(0, 0), Pt(1, 1), Pt(2, 1), Pt(3, 0)>>, <<Pt(0, 0), Pt(2, 1), Pt(-2, 1), Pt(0, 0)>>}

NearOthers ==
    {<<>>, <<Pt(0, 0)>>, <<Pt(0, 0), Pt(1, 0), Pt(2, 0), Pt(3, 0), Pt(4, 0)>>}

NearInputs ==
    ({"slice"} \X (NearLines \cup NearQuadratics \cup NearCubics \cup NearOthers))
        \cup ({"Line", "Arc"} \X NearLines)
        \cup ({"Quadratic"} \X NearQuadratics)
        \cup ({"Cubic"} \X NearCubics)

\* t0 on the samples of the lookup table: NearSamples + 1 of them, evenly
\* spread over 0..LUT_SIZE
NearSamples == 4

SampleTs == {Norm((LUT_SIZE * k) \div NearSamples, LUT_SIZE) : k \in 0..NearSamples}

\* t0 between two samples
OffSampleTs == {<<1, 200>>, <<1, 3>>, <<199, 200>>}

\* the segment lists handed to BezierCurve::new and new_closed: up to
\* MaxSegments segments over three points
MaxSegments == 3

CurveLinePoints == {Pt(0, 0), Pt(1, 0), Pt(1, 1)}

SegmentPool ==
    ({"Line"} \X SeqsOfLen(CurveLinePoints, 2))
        \cup {<<"Arc", <<Pt(0, 0), Pt(1, 0)>>>>, <<"Arc", <<Pt(1, 1), Pt(0, 0)>>>>}
        \cup {<<"Quadratic", <<Pt(0, 0), Pt(1, 1), Pt(0, 0)>>>>,
              <<"Quadratic", <<Pt(0, 0), Pt(1, 1), Pt(1, 0)>>>>,
              <<"Cubic", <<Pt(1, 0), Pt(0, 0), Pt(1, 1), Pt(0, 0)>>>>}

SegmentLists == UNION {SeqsOfLen(SegmentPool, n) : n \in 0..MaxSegments}

\* the points handed to the t-heuristics: up to MaxSamples points of a
\* pool whose mutual distances are 0, 1, 3, 4, 5 and two irrational ones
MaxSamples == 4

SamplePool == {Pt(0, 0), Pt(4, 0), Pt(4, 3), Pt(5, 0)}

SampleLists == UNION {SeqsOfLen(SamplePool, n) : n \in 0..MaxSamples}

\* the sample points handed to the fit: too few, coincident, on a straight
\* line, and running back and forth between two places
FitPointLists ==
    {<<>>,
     <<Pt(0, 0), Pt(1, 0), Pt(2, 0)>>,
     <<Pt(0, 0), Pt(0, 0), Pt(0, 0), Pt(0, 0)>>,
     <<Pt(0, 0), Pt(1, 0), Pt(2, 0), Pt(3, 0)>>,
     <<Pt(0, 0), Pt(1, 0), Pt(0, 0), Pt(1, 0), Pt(0, 0)>>,
     <<Pt(0, 0), Pt(3, 0), Pt(-1, 0), Pt(2, 0), Pt(-2, 0)>>,
     <<Pt(0, 0), Pt(4, 0), Pt(4, 3), Pt(0, 0), Pt(4, 0)>>}

\* the t-values handed to least_square_solve_p_given_t by a caller
FitTLists ==
    {<<QZero, Norm(1, 2), QOne>>,
     <<QZero, Norm(1, 3), Norm(2, 3), QOne>>,
     <<QZero, Norm(1, 2), Norm(1, 2), QOne>>,
     <<QZero, Norm(1, 4), Norm(1, 2), Norm(3, 4), QOne>>,
     <<QZero, QZero, Norm(1, 2), QOne, QOne>>}

FitCalls == {"solve", "with_heuristic", "alternating", "weak_varpro"}

\* max_iterations of a call: 0 or MaxIterations
MaxIterations == 2

\* GradientParams::num_random_samples of a call: 0 or MaxRandomSamples
MaxRandomSamples == 1

\* parameters the nearest-point search may return for a point: the one the
\* point had (choice 0), or one of two places of its table
NearestPool == <<QZero, Norm(1, 2)>>

\* the arrays update_t_values_nearest_point may return on t_values
update_t_values_nearest_point(t_values) ==
    {[i \in 1..Len(t_values) |-> IF c[i] = 0 THEN t_values[i] ELSE NearestPool[c[i]]] :
        c \in [1..Len(t_values) -> 0..Len(NearestPool)]}

\* the step directions get_delta_t may return for n points: none, the same
\* step for every entry, or steps of alternating sign
DeltaSize == Norm(1, 4)

DeltaPool(n) ==
    {[i \in 1..n |-> QZero],
     [i \in 1..n |-> DeltaSize],
     [i \in 1..n |-> IF i % 2 = 0 THEN DeltaSize ELSE QNeg(DeltaSize)]}

\* step sizes of the line search, inside [min_step_size, max_step_size]
StepPool == {QOne, QI(4)}

\* values normal.sample(&mut rng) may return for the n entries of one
\* variation: the same value for every entry, or values of alternating sign
FactorPool(n) ==
    {[i \in 1..n |-> QOne],
     [i \in 1..n |-> QI(-1)],
     [i \in 1..n |-> IF i % 2 = 0 THEN QOne ELSE QI(-1)]}


VARIABLES
    mode,         \* which entry point the caller drives
    seg_kind,     \* "slice" or the BezierSegment variant
    cp,           \* the control points
    tpar,         \* the parameter t
    left,         \* left half of a split / left input of a merge
    right,        \* right half of a split / right input of a merge
    merged,       \* result of merge_split_bezier_curves
    result,       \* result of evaluate
    near,         \* result of nearest_point: <<point, t>>
    near_best,    \* <<best_t, best_point, best_distance>> of the running search
    near_i,       \* the index i of the sampling loop
    near_left,    \* left of the refinement
    near_right,   \* right of the refinement
    curves,       \* the list merge_curves_sequentially works on
    input_curves, \* the list the caller started from
    first_out,    \* what the first call of merge_curves_sequentially returned
    ms_i,         \* the loop index i, counted from 1
    any_merged,   \* the flag of the same name
    ms_steps,     \* turns of the two loops taken by the running call
    round,        \* 1 in the first call, 2 in the call on its output
    cv_segments,  \* the segment list handed to BezierCurve::new / new_closed
    cv_curve,     \* the curve returned: <<segments, is_closed>>, or None
    th_points,    \* the points handed to a t-heuristic
    th_heuristic, \* the heuristic chosen
    th_out,       \* the t-values returned
    fit_points,   \* points: the samples handed to the fit
    fit_call,     \* which function of modules/fit the caller calls
    fit_option,   \* its THeuristic or TUpdateMethod argument
    fit_max_iterations, \* its max_iterations argument
    fit_num_random_samples, \* GradientParams::num_random_samples
    fit_t_values, \* the t-values of the running fit
    fit_segment,  \* the last result of least_square_solve_p_given_t
    fit_round,    \* turns of `for _ in 0..max_iterations` begun
    fit_width,    \* right - left of the running nearest-point refinement
    fit_turns,    \* turns of its `while right - left > tolerance` taken
    fit_within,   \* the last answer of all_points_within_tolerance
    fit_delta_t,  \* the step direction of the running weak-varpro update
    fit_losses,   \* calls of compute_step_loss made by the running line search
    fit_prev_loss, \* prev_loss of fit_cubic_bezier_weak_varpro
    fit_variations, \* the list generate_t_variations is building
    fit_tick,     \* 0 or 1, changing with every step of the running call
    fit_result,   \* "none", "Ok" or "Err": what the call returned
    ro_points,    \* p1, p2, p3, p4 handed to reorder_control_points
    ro_start_point, \* its start_point
    ro_out,       \* the four points it returned
    current_tool,  \* ToolState.current_tool
    previous_tool, \* ToolState.previous_tool
    is_space_held, \* ToolState.is_space_held
    kb_space,      \* whether the Space key is down after the frame's key events
    space_just_pressed,  \* keyboard.just_pressed(KeyCode::Space) in the frame
    space_just_released, \* keyboard.just_released(KeyCode::Space) in the frame
    tool_at_space_press, \* the tool that was current when Space went down last
    selected_points, \* SelectionToolState.selected_points
    world_curves,  \* the BezierCurve entities: curve entity |-> its point_entities
    curve_creation_point_entities, \* CurveCreationToolState: the entities collected
    curve_creation_state,  \* CurveCreationToolState: "Idle" or "CollectingPoints"
    last_point_entity,     \* CurveCreationToolState: Some(entity), or None
    cc_clicks,     \* the clicks accepted for the curve being collected or just spawned
    cc_accepted,   \* whether the last frame accepted a click
    cc_spawned,    \* the point_entities of the curve the last frame spawned, or None
    del_ran,       \* whether the last frame's handle_delete_action deleted
    del_curves,    \* the curves it found
    del_selected,  \* the selected_points it found
    world_points,  \* the Point entities: point entity |-> its position
    mg_ran,        \* what the last frame's handle_merge_action did
    mg_order,      \* curve_entities: the involved curves in the order it iterated them
    mg_curves,     \* the curves it found
    mg_points,     \* the points it found
    pc,           \* the call made last, or the position inside the running call
    outcome       \* "value" or "panic" of the call made last

near_vars == <<near_best, near_i, near_left, near_right>>

geo_vars == <<seg_kind, cp, tpar, left, right, merged, result, near, near_vars>>

ms_vars == <<curves, input_curves, first_out, ms_i, any_merged, ms_steps, round>>

cv_vars == <<cv_segments, cv_curve>>

th_vars == <<th_points, th_heuristic, th_out>>

fit_args == <<fit_points, fit_call, fit_option, fit_max_iterations, fit_num_random_samples>>

fit_vars == <<fit_args, fit_t_values, fit_segment, fit_round, fit_width, fit_turns, fit_within,
              fit_delta_t,
              fit_losses, fit_prev_loss, fit_variations, fit_tick, fit_result>>

ro_vars == <<ro_points, ro_start_point, ro_out>>

\* the state of reorder_control_points and of the editor's tools
tool_vars == <<current_tool, previous_tool, is_space_held, kb_space, space_just_pressed,
               space_just_released, tool_at_space_press>>

world_vars == <<selected_points, world_curves>>

ed_vars == <<tool_vars, world_vars>>

cc_vars == <<curve_creation_point_entities, curve_creation_state, last_point_entity,
             cc_clicks, cc_accepted, cc_spawned>>

del_vars == <<del_ran, del_curves, del_selected>>

mg_vars == <<world_points, mg_ran, mg_order, mg_curves, mg_points>>

app_vars == <<ro_vars, ed_vars, cc_vars, del_vars, mg_vars>>

\* the state of the data and fit layers and of the editor
lib_vars == <<cv_vars, th_vars, fit_vars, app_vars>>

vars == <<mode, geo_vars, ms_vars, lib_vars, pc, outcome>>

Origin == Pt(0, 0)

NoSearch ==
    /\ near_best = <<QZero, Origin, Origin>>
    /\ near_i = 0
    /\ near_left = QZero
    /\ near_right = QZero

NoMergeSeq ==
    /\ curves = <<>>
    /\ input_curves = <<>>
    /\ first_out = <<>>
    /\ ms_i = 0
    /\ any_merged = FALSE
    /\ ms_steps = 0
    /\ round = 0

NoCurve ==
    /\ cv_segments = <<>>
    /\ cv_curve = None

NoHeuristic ==
    /\ th_points = <<>>
    /\ th_heuristic = "ChordLength"
    /\ th_out = <<>>

NoFitRun ==
    /\ fit_segment = FitError
    /\ fit_round = 0
    /\ fit_width = QZero
    /\ fit_turns = 0
    /\ fit_within = FALSE
    /\ fit_delta_t = <<>>
    /\ fit_losses = 0
    /\ fit_prev_loss = <<>>
    /\ fit_variations = <<>>
    /\ fit_tick = 0
    /\ fit_result = "none"

NoFit ==
    /\ fit_points = <<>>
    /\ fit_call = "solve"
    /\ fit_option = "none"
    /\ fit_max_iterations = 0
    /\ fit_num_random_samples = 0
    /\ fit_t_values = <<>>
    /\ NoFitRun

NoReorder ==
    /\ ro_points = <<>>
    /\ ro_start_point = Origin
    /\ ro_out = <<>>

\* ToolState::default(), no key down
NoTools ==
    /\ current_tool = "Select"
    /\ previous_tool = "Select"
    /\ is_space_held = FALSE
    /\ kb_space = FALSE
    /\ space_just_pressed = FALSE
    /\ space_just_released = FALSE
    /\ tool_at_space_press = "none"

NoWorld == selected_points = <<>> /\ world_curves = <<>>

NoEditor == NoTools /\ NoWorld

\* CurveCreationToolState::default()
NoCreation ==
    /\ curve_creation_point_entities = <<>>
    /\ curve_creation_state = "Idle"
    /\ last_point_entity = None
    /\ cc_clicks = <<>>
    /\ cc_accepted = FALSE
    /\ cc_spawned = None

NoDelete == del_ran = FALSE /\ del_curves = <<>> /\ del_selected = <<>>

NoMerge ==
    /\ world_points = <<>>
    /\ mg_ran = "no"
    /\ mg_order = <<>>
    /\ mg_curves = <<>>
    /\ mg_points = <<>>

NoApp == NoReorder /\ NoEditor /\ NoCreation /\ NoDelete /\ NoMerge

NoLib == NoCurve /\ NoHeuristic /\ NoFit /\ NoApp

NoGeometry ==
    /\ seg_kind = "slice"
    /\ cp = <<>>
    /\ tpar = QZero
    /\ left = <<>>
    /\ right = <<>>
    /\ merged = None
    /\ result = Origin
    /\ near = <<Origin, QZero>>
    /\ NoSearch

InitGeometry ==
    /\ mode = "geometry"
    /\ seg_kind \in {"slice"} \cup SegmentKinds
    /\ cp \in (IF seg_kind = "slice" THEN Slices ELSE SeqsOfLen(SegmentPoints, PointsLen(seg_kind)))
    /\ tpar \in TParams
    /\ left = <<>>
    /\ right = <<>>
    /\ merged = None
    /\ result = Origin
    /\ near = <<Origin, QZero>>
    /\ NoSearch
    /\ NoMergeSeq
    /\ NoLib
    /\ pc = "ready"
    /\ outcome = "none"

\* merge_split_bezier_curves called on an arbitrary pair of slices
InitPair ==
    /\ mode = "pair"
    /\ seg_kind = "slice"
    /\ cp = <<>>
    /\ tpar = QZero
    /\ left \in PairCurves
    /\ right \in PairCurves
    /\ merged = None
    /\ result = Origin
    /\ near = <<Origin, QZero>>
    /\ NoSearch
    /\ NoMergeSeq
    /\ NoLib
    /\ pc = "ready"
    /\ outcome = "none"

Init == InitGeometry \/ InitPair

\* a caller that looks for the point nearest to the origin or to evaluate(t0)
InitNearest ==
    /\ mode = "nearest"
    /\ \E input \in NearInputs : seg_kind = input[1] /\ cp = input[2]
    /\ tpar \in (IF Len(cp) = 2 THEN SampleTs \cup OffSampleTs ELSE SampleTs)
    /\ left = <<>>
    /\ right = <<>>
    /\ merged = None
    /\ result = Origin
    /\ near = <<Origin, QZero>>
    /\ NoSearch
    /\ NoMergeSeq
    /\ NoLib
    /\ pc = "ready"
    /\ outcome = "none"

InitMergeSeq ==
    /\ mode = "mergeseq"
    /\ seg_kind = "slice"
    /\ cp = <<>>
    /\ tpar = QZero
    /\ left = <<>>
    /\ right = <<>>
    /\ merged = None
    /\ result = Origin
    /\ near = <<Origin, QZero>>
    /\ NoSearch
    /\ curves \in CurveLists
    /\ input_curves = curves
    /\ first_out = <<>>
    /\ ms_i = 0
    /\ any_merged = FALSE
    /\ ms_steps = 0
    /\ round = 1
    /\ NoLib
    /\ pc = "ready"
    /\ outcome = "none"

InitCurve ==
    /\ mode = "curve"
    /\ NoGeometry
    /\ NoMergeSeq
    /\ cv_segments \in SegmentLists
    /\ cv_curve = None
    /\ NoHeuristic
    /\ NoFit
    /\ NoApp
    /\ pc = "ready"
    /\ outcome = "none"

InitHeuristic ==
    /\ mode = "heuristic"
    /\ NoGeometry
    /\ NoMergeSeq
    /\ NoCurve
    /\ NoFit
    /\ NoApp
    /\ th_points \in SampleLists
    /\ th_heuristic \in THeuristic
    /\ th_out = <<>>
    /\ pc = "ready"
    /\ outcome = "none"

\* evaluate_bezier_curve_segment(&cp, t), BezierSegment::point_at(t)
Evaluate ==
    /\ mode \in {"geometry", "nearest"}
    /\ pc = "ready"
    /\ pc' = "evaluate"
    /\ IF seg_kind = "Arc" \/ Unsupported(cp)
       THEN outcome' = "panic" /\ result' = result
       ELSE outcome' = "value" /\ result' = evaluate_bezier_curve_segment(cp, tpar)
    /\ UNCHANGED <<mode, seg_kind, cp, tpar, left, right, merged, near, near_vars, ms_vars, lib_vars>>

\* split_bezier_curve_segment_at_t(&cp, t), BezierSegment::split_at(t)
Split ==
    /\ mode \in {"geometry", "nearest"}
    /\ pc = "ready"
    /\ pc' = "split"
    /\ IF seg_kind = "Arc" \/ Unsupported(cp)
       THEN outcome' = "panic" /\ UNCHANGED <<left, right>>
       ELSE /\ outcome' = "value"
            /\ left' = split_bezier_curve_segment_at_t(cp, tpar)[1]
            /\ right' = split_bezier_curve_segment_at_t(cp, tpar)[2]
    /\ UNCHANGED <<mode, seg_kind, cp, tpar, merged, result, near, near_vars, ms_vars, lib_vars>>

\* merge_split_bezier_curves(&left, &right) on the halves of a split
MergeSplit ==
    /\ mode = "geometry"
    /\ pc = "split"
    /\ outcome = "value"
    /\ pc' = "split_merge"
    /\ merged' = merge_split_bezier_curves(left, right)
    /\ outcome' = "value"
    /\ UNCHANGED <<mode, seg_kind, cp, tpar, left, right, result, near, near_vars, ms_vars, lib_vars>>

\* merge_split_bezier_curves(&left, &right) on two given slices
MergePair ==
    /\ mode = "pair"
    /\ pc = "ready"
    /\ pc' = "pair_merge"
    /\ IF MergePanics(left, right)
       THEN outcome' = "panic" /\ merged' = merged
       ELSE outcome' = "value" /\ merged' = merge_split_bezier_curves(left, right)
    /\ UNCHANGED <<mode, seg_kind, cp, tpar, left, right, result, near, near_vars, ms_vars, lib_vars>>

\* find_closest_t_on_bezier_curve_segment(&cp, &result) on a slice,
\* BezierSegment::nearest_point(&result) on a segment: the target is the
\* origin, or the point the caller has just evaluated.  The first
\* evaluation panics on an unsupported length.
NearestCall ==
    /\ mode = "nearest"
    /\ pc = "ready" \/ (pc = "evaluate" /\ outcome = "value")
    /\ IF Unsupported(cp)
       THEN pc' = "nearest" /\ outcome' = "panic" /\ UNCHANGED near_vars
       ELSE /\ pc' = "near_lut"
            /\ outcome' = "none"
            /\ near_best' = FirstCandidate(cp, result)
            /\ near_i' = 0
            /\ UNCHANGED <<near_left, near_right>>
    /\ UNCHANGED <<mode, seg_kind, cp, tpar, left, right, merged, result, near, ms_vars, lib_vars>>

\* one turn of `for i in 0..=LUT_SIZE`, or its end and the setting of left
\* and right
NearestSample ==
    /\ mode = "nearest"
    /\ pc = "near_lut"
    /\ IF near_i > LUT_SIZE
       THEN /\ pc' = "near_refine"
            /\ near_left' = RefineLeft(near_best)
            /\ near_right' = RefineRight(near_best)
            /\ UNCHANGED <<near_best, near_i>>
       ELSE /\ near_best' = LutUpdate(near_best, SampleT(near_i),
                                      evaluate_bezier_curve_segment(cp, SampleT(near_i)), result)
            /\ near_i' = near_i + 1
            /\ UNCHANGED <<pc, near_left, near_right>>
    /\ UNCHANGED <<mode, seg_kind, cp, tpar, left, right, merged, result, near, ms_vars, lib_vars, outcome>>

\* one turn of `while right - left > tolerance`, or its end and the return
NearestRefine ==
    /\ mode = "nearest"
    /\ pc = "near_refine"
    /\ IF QGt(QSub(near_right, near_left), RefineTolerance)
       THEN /\ near_left' = RefineStep(cp, result, near_left, near_right, near_best)[1]
            /\ near_right' = RefineStep(cp, result, near_left, near_right, near_best)[2]
            /\ near_best' = RefineStep(cp, result, near_left, near_right, near_best)[3]
            /\ UNCHANGED <<pc, outcome, near>>
       ELSE /\ near' = <<near_best[2], near_best[1]>>
            /\ pc' = "nearest"
            /\ outcome' = "value"
            /\ UNCHANGED <<near_best, near_left, near_right>>
    /\ UNCHANGED <<mode, seg_kind, cp, tpar, left, right, merged, result, near_i, ms_vars, lib_vars>>

\* merge_curves_sequentially(curves): the early return and the entry of the loop
MergeSeqCall ==
    /\ mode = "mergeseq"
    /\ pc = "ready"
    /\ IF Len(curves) < 2
       THEN pc' = "ms_done" /\ outcome' = "value" /\ UNCHANGED <<ms_i, any_merged>>
       ELSE pc' = "ms_scan" /\ outcome' = outcome /\ ms_i' = 1 /\ any_merged' = FALSE
    /\ ms_steps' = 0
    /\ UNCHANGED <<mode, geo_vars, lib_vars, curves, input_curves, first_out, round>>

\* one turn of `for i in 0..curves.len() - 1`, or its end
MergeSeqScan ==
    /\ mode = "mergeseq"
    /\ pc = "ms_scan"
    /\ IF ms_i > Len(curves) - 1
       THEN pc' = "ms_pass_end" /\ UNCHANGED <<curves, ms_i, any_merged, outcome>>
       ELSE IF AttemptPanics(curves[ms_i], curves[ms_i + 1])
       THEN pc' = "ms_done" /\ outcome' = "panic" /\ UNCHANGED <<curves, ms_i, any_merged>>
       ELSE IF IsSome(MergeAttempt(curves[ms_i], curves[ms_i + 1]))
       THEN /\ curves' = Splice(curves, ms_i, MergeAttempt(curves[ms_i], curves[ms_i + 1]))
            /\ any_merged' = TRUE
            /\ pc' = "ms_pass_end"
            /\ UNCHANGED <<ms_i, outcome>>
       ELSE ms_i' = ms_i + 1 /\ UNCHANGED <<curves, any_merged, pc, outcome>>
    /\ ms_steps' = ms_steps + 1
    /\ UNCHANGED <<mode, geo_vars, lib_vars, input_curves, first_out, round>>

\* a faulty variant: the function returns after the first pass even if it merged
MergeSeqPassEndNoRestart ==
    /\ mode = "mergeseq"
    /\ pc = "ms_pass_end"
    /\ pc' = "ms_done"
    /\ outcome' = "value"
    /\ ms_steps' = ms_steps + 1
    /\ UNCHANGED <<mode, geo_vars, lib_vars, curves, input_curves, first_out, ms_i, any_merged, round>>

\* `if !any_merged { break; }` and the return of curves
MergeSeqPassEnd ==
    /\ mode = "mergeseq"
    /\ pc = "ms_pass_end"
    /\ IF any_merged
       THEN pc' = "ms_scan" /\ ms_i' = 1 /\ any_merged' = FALSE /\ outcome' = outcome
       ELSE pc' = "ms_done" /\ outcome' = "value" /\ UNCHANGED <<ms_i, any_merged>>
    /\ ms_steps' = ms_steps + 1
    /\ UNCHANGED <<mode, geo_vars, lib_vars, curves, input_curves, first_out, round>>

\* the caller hands the returned list to merge_curves_sequentially again
MergeSeqAgain ==
    /\ mode = "mergeseq"
    /\ pc = "ms_done"
    /\ outcome = "value"
    /\ round = 1
    /\ round' = 2
    /\ first_out' = curves
    /\ pc' = "ready"
    /\ outcome' = "none"
    /\ UNCHANGED <<mode, geo_vars, lib_vars, curves, input_curves, ms_i, any_merged, ms_steps>>

\* BezierCurve::new(segments)
CurveNew ==
    /\ mode = "curve"
    /\ pc = "ready"
    /\ pc' = "new"
    /\ cv_curve' = BezierCurve_new(cv_segments)
    /\ outcome' = "value"
    /\ UNCHANGED <<mode, geo_vars, ms_vars, cv_segments, th_vars, fit_vars, app_vars>>

\* BezierCurve::new_closed(segments)
CurveNewClosed ==
    /\ mode = "curve"
    /\ pc = "ready"
    /\ pc' = "new_closed"
    /\ cv_curve' = new_closed(cv_segments)
    /\ outcome' = "value"
    /\ UNCHANGED <<mode, geo_vars, ms_vars, cv_segments, th_vars, fit_vars, app_vars>>

\* estimate_t_values_with_heuristic(&points, heuristic)
EstimateTValues ==
    /\ mode = "heuristic"
    /\ pc = "ready"
    /\ pc' = "estimate"
    /\ th_out' = estimate_t_values_with_heuristic(th_points, th_heuristic)
    /\ outcome' = "value"
    /\ UNCHANGED <<mode, geo_vars, ms_vars, cv_vars, th_points, th_heuristic, fit_vars, app_vars>>

\* the caller picks another heuristic for the same points
PickHeuristic ==
    /\ mode = "heuristic"
    /\ pc = "estimate"
    /\ \E h \in THeuristic \ {th_heuristic} : th_heuristic' = h
    /\ pc' = "ready"
    /\ outcome' = "none"
    /\ UNCHANGED <<mode, geo_vars, ms_vars, cv_vars, th_points, th_out, fit_vars, app_vars>>

Next == Evaluate \/ Split \/ MergeSplit \/ MergePair

Spec == Init /\ [][Next]_vars

NextNearest == Evaluate \/ Split \/ NearestCall \/ NearestSample \/ NearestRefine

NearestSpec == InitNearest /\ [][NextNearest]_vars

NextMergeSeq == MergeSeqCall \/ MergeSeqScan \/ MergeSeqPassEnd \/ MergeSeqAgain

\* a turn of the loops of the running call: MergeSeqScan or MergeSeqPassEnd
MergeSeqTurn ==
    /\ mode = "mergeseq"
    /\ pc \in {"ms_scan", "ms_pass_end"}
    /\ ms_steps' = ms_steps + 1

\* once called, the function keeps running: its next turn is taken
MergeSeqSpec == InitMergeSeq /\ [][NextMergeSeq]_vars /\ WF_ms_steps(MergeSeqTurn)

NextCurve == CurveNew \/ CurveNewClosed

CurveSpec == InitCurve /\ [][NextCurve]_vars

NextHeuristic == EstimateTValues \/ PickHeuristic

HeuristicSpec == InitHeuristic /\ [][NextHeuristic]_vars

\* the control points a solve has computed and the first sample
InitReorder ==
    /\ mode = "reorder"
    /\ NoGeometry
    /\ NoMergeSeq
    /\ NoCurve
    /\ NoHeuristic
    /\ NoFit
    /\ NoEditor
    /\ NoCreation
    /\ NoDelete
    /\ NoMerge
    /\ ro_points \in SeqsOfLen(Grid, 4)
    /\ ro_start_point \in Grid
    /\ ro_out = <<>>
    /\ pc = "ready"
    /\ outcome = "none"

\* reorder_control_points as least_square_solve_p_given_t calls it
ReorderControlPoints ==
    /\ mode = "reorder"
    /\ pc = "ready"
    /\ pc' = "reordered"
    /\ ro_out' = reorder_control_points(ro_points[1], ro_points[2], ro_points[3], ro_points[4],
                                       ro_start_point)
    /\ outcome' = "value"
    /\ UNCHANGED <<mode, geo_vars, ms_vars, cv_vars, th_vars, fit_vars, ro_points, ro_start_point,
                   ed_vars, cc_vars, del_vars, mg_vars>>

NextReorder == ReorderControlPoints

ReorderSpec == InitReorder /\ [][NextReorder]_vars

InitFit ==
    /\ mode = "fit"
    /\ NoGeometry
    /\ NoMergeSeq
    /\ NoCurve
    /\ NoHeuristic
    /\ NoApp
    /\ fit_points \in FitPointLists
    /\ fit_call \in FitCalls
    /\ fit_option \in (CASE fit_call = "with_heuristic" -> THeuristic
                         [] fit_call = "alternating" -> TUpdateMethod
                         [] OTHER -> {"none"})
    /\ fit_max_iterations \in (IF fit_call \in {"alternating", "weak_varpro"}
                               THEN {0, MaxIterations} ELSE {0})
    /\ fit_num_random_samples \in (IF fit_call = "weak_varpro"
                                   THEN {0, MaxRandomSamples} ELSE {0})
    /\ fit_t_values \in (IF fit_call = "solve" THEN FitTLists ELSE {<<>>})
    /\ NoFitRun
    /\ pc = "ready"
    /\ outcome = "none"

\* what a fit leaves alone
FitFrame == UNCHANGED <<mode, geo_vars, ms_vars, cv_vars, th_vars, app_vars, fit_args>>

\* return Ok(segment) / return Err(..) / the unwrap of an Err
FitReturn(r) ==
    /\ pc' = "fit_done"
    /\ fit_result' = r
    /\ outcome' = "value"

FitPanic ==
    /\ pc' = "fit_done"
    /\ fit_result' = "none"
    /\ outcome' = "panic"

\* least_square_solve_p_given_t(&points, &t_values) called by itself
SolveGivenT ==
    /\ mode = "fit"
    /\ pc = "ready"
    /\ fit_call = "solve"
    /\ fit_segment' = least_square_solve_p_given_t(fit_points, fit_t_values)
    /\ FitReturn(IF fit_segment' = FitError THEN "Err" ELSE "Ok")
    /\ fit_tick' = 1 - fit_tick
    /\ UNCHANGED <<fit_t_values, fit_round, fit_width, fit_turns, fit_within, fit_delta_t, fit_losses, fit_prev_loss,
                   fit_variations>>
    /\ FitFrame

\* fit_cubic_bezier_with_heuristic(&points, heuristic); fit_cubic_bezier_default
\* is the call with THeuristic::default(), ChordLength
FitWithHeuristic ==
    /\ mode = "fit"
    /\ pc = "ready"
    /\ fit_call = "with_heuristic"
    /\ IF Len(fit_points) < 4
       THEN FitReturn("Err") /\ UNCHANGED <<fit_t_values, fit_segment>>
       ELSE /\ fit_t_values' = estimate_t_values_with_heuristic(fit_points, fit_option)
            /\ fit_segment' = least_square_solve_p_given_t(fit_points, fit_t_values')
            /\ FitReturn(IF fit_segment' = FitError THEN "Err" ELSE "Ok")
    /\ fit_tick' = 1 - fit_tick
    /\ UNCHANGED <<fit_round, fit_width, fit_turns, fit_within, fit_delta_t, fit_losses, fit_prev_loss,
                   fit_variations>>
    /\ FitFrame

\* fit_cubic_bezier_alternating and fit_cubic_bezier_weak_varpro up to their
\* loop: the length check, the chord-length start, the first solve and the
\* return on max_iterations == 0
FitIterativeCall ==
    /\ mode = "fit"
    /\ pc = "ready"
    /\ fit_call \in {"alternating", "weak_varpro"}
    /\ IF Len(fit_points) < 4
       THEN FitReturn("Err") /\ UNCHANGED <<fit_t_values, fit_segment>>
       ELSE /\ fit_t_values' = estimate_t_values_with_heuristic(fit_points, "ChordLength")
            /\ fit_segment' = least_square_solve_p_given_t(fit_points, fit_t_values')
            /\ IF fit_segment' = FitError THEN FitReturn("Err")
               ELSE IF fit_max_iterations = 0 THEN FitReturn("Ok")
               ELSE pc' = "fit_round" /\ UNCHANGED <<fit_result, outcome>>
    /\ fit_prev_loss' =
           IF fit_call = "weak_varpro" /\ Len(fit_points) >= 4 /\ fit_segment' # FitError
           THEN residual_norm(fit_points, fit_t_values', fit_segment')
           ELSE fit_prev_loss
    /\ fit_tick' = 1 - fit_tick
    /\ UNCHANGED <<fit_round, fit_width, fit_turns, fit_within, fit_delta_t, fit_losses,
                   fit_variations>>
    /\ FitFrame

\* the head of `for _ in 0..max_iterations`: the end of the loop, or the
\* start of a turn with the nearest-point search of
\* all_points_within_tolerance, whose table gave some best_t
FitRound ==
    /\ mode = "fit"
    /\ pc = "fit_round"
    /\ IF fit_round >= fit_max_iterations
       THEN FitReturn("Ok") /\ UNCHANGED <<fit_round, fit_width, fit_turns, fit_within>>
       ELSE /\ fit_round' = fit_round + 1
            /\ fit_turns' = 0
            /\ fit_within' = FALSE
            /\ \E best_t \in {NearestPool[k] : k \in 1..Len(NearestPool)} :
                   fit_width' = RefineWidth(best_t)
            /\ pc' = "fit_search"
            /\ UNCHANGED <<fit_result, outcome>>
    /\ fit_tick' = 1 - fit_tick
    /\ UNCHANGED <<fit_t_values, fit_segment, fit_delta_t, fit_losses, fit_prev_loss, fit_variations>>
    /\ FitFrame

\* one turn of `while right - left > tolerance` of that search, or its end
\* and the answer of all_points_within_tolerance: the break, or the update
FitSearch ==
    /\ mode = "fit"
    /\ pc = "fit_search"
    /\ IF QGt(fit_width, RefineTolerance)
       THEN /\ fit_width' \in RefineWidths(fit_width)
            /\ fit_turns' = fit_turns + 1
            /\ UNCHANGED <<pc, fit_within, fit_result, outcome>>
       ELSE /\ fit_width' = QZero
            /\ fit_turns' = 0
            /\ fit_within' \in BOOLEAN
            /\ IF ToleranceBreak(fit_within') THEN FitReturn("Ok")
               ELSE /\ pc' = IF fit_call = "alternating" THEN "fit_update" ELSE "fit_delta"
                    /\ UNCHANGED <<fit_result, outcome>>
    /\ fit_tick' = 1 - fit_tick
    /\ UNCHANGED <<fit_t_values, fit_segment, fit_round, fit_delta_t, fit_losses, fit_prev_loss, fit_variations>>
    /\ FitFrame

\* the rest of a turn of fit_cubic_bezier_alternating: the update of the
\* t-values by update_method and the solve on them
AlternatingUpdate ==
    /\ mode = "fit"
    /\ pc = "fit_update"
    /\ \/ /\ fit_option = "NearestPoint"
          /\ fit_t_values' \in update_t_values_nearest_point(fit_t_values)
          /\ fit_segment' = least_square_solve_p_given_t(fit_points, fit_t_values')
          /\ IF fit_segment' = FitError THEN FitReturn("Err")
             ELSE pc' = "fit_round" /\ UNCHANGED <<fit_result, outcome>>
       \/ /\ fit_option = "GaussNewton"
          /\ \E dt \in DeltaPool(Len(fit_points)) :
                 fit_t_values' = update_t_values_gauss_newton(fit_t_values, dt)
          /\ fit_segment' = least_square_solve_p_given_t(fit_points, fit_t_values')
          /\ IF fit_segment' = FitError THEN FitReturn("Err")
             ELSE pc' = "fit_round" /\ UNCHANGED <<fit_result, outcome>>
       \/ /\ fit_option = "GaussNewton"
          /\ FitReturn("Err")
          /\ UNCHANGED <<fit_t_values, fit_segment>>
    /\ fit_tick' = 1 - fit_tick
    /\ UNCHANGED <<fit_round, fit_width, fit_turns, fit_within, fit_delta_t, fit_losses, fit_prev_loss,
                   fit_variations>>
    /\ FitFrame

\* update_t_values_weak_varpro, get_delta_t: the step direction, or the
\* error of a system lu() cannot solve
VarproDelta ==
    /\ mode = "fit"
    /\ pc = "fit_delta"
    /\ \/ /\ fit_delta_t' \in DeltaPool(Len(fit_points))
          /\ pc' = "fit_linesearch"
          /\ UNCHANGED <<fit_result, outcome>>
       \/ /\ FitReturn("Err")
          /\ UNCHANGED fit_delta_t
    /\ fit_losses' = 0
    /\ fit_tick' = 1 - fit_tick
    /\ UNCHANGED <<fit_t_values, fit_segment, fit_round, fit_width, fit_turns, fit_within, fit_prev_loss,
                   fit_variations>>
    /\ FitFrame

\* find_best_step_size_linesearch: one call of compute_step_loss (two before
\* the loop, one in each of its num_steps turns), or the return of the step
\* size and the base point made of it
VarproLineSearch ==
    /\ mode = "fit"
    /\ pc = "fit_linesearch"
    /\ IF fit_losses < 2 + num_steps
       THEN \E step_size \in StepPool :
                IF compute_step_loss(fit_points, fit_t_values, fit_delta_t, step_size) = "panic"
                THEN FitPanic /\ UNCHANGED <<fit_losses, fit_variations>>
                ELSE /\ fit_losses' = fit_losses + 1
                     /\ UNCHANGED <<pc, fit_result, outcome, fit_variations>>
       ELSE \E best_step_size \in StepPool :
                /\ fit_variations' =
                       <<adjust_t_values(StepTValues(fit_t_values, fit_delta_t, best_step_size))>>
                /\ pc' = "fit_variations"
                /\ UNCHANGED <<fit_losses, fit_result, outcome>>
    /\ fit_tick' = 1 - fit_tick
    /\ UNCHANGED <<fit_t_values, fit_segment, fit_round, fit_width, fit_turns, fit_within, fit_delta_t,
                   fit_prev_loss>>
    /\ FitFrame

\* generate_t_variations: one turn of `for _ in 0..params.num_random_samples`
\* with the factors thread_rng() hands out, or its end and the push of the
\* base point by the caller
VarproVariation ==
    /\ mode = "fit"
    /\ pc = "fit_variations"
    /\ IF Len(fit_variations) < 1 + fit_num_random_samples
       THEN /\ \E random_factors \in FactorPool(Len(fit_points)) :
                   fit_variations' =
                       Append(fit_variations,
                              random_t_values(fit_variations[1], fit_delta_t, random_factors))
            /\ UNCHANGED pc
       ELSE /\ fit_variations' = Append(fit_variations, fit_variations[1])
            /\ pc' = "fit_best"
    /\ fit_tick' = 1 - fit_tick
    /\ UNCHANGED <<fit_t_values, fit_segment, fit_round, fit_width, fit_turns, fit_within, fit_delta_t,
                   fit_losses, fit_prev_loss, fit_result, outcome>>
    /\ FitFrame

\* find_best_t_values, the choice between its result and the old t-values,
\* and the rest of the turn of fit_cubic_bezier_weak_varpro
VarproBest ==
    /\ mode = "fit"
    /\ pc = "fit_best"
    /\ IF \E k \in 1..Len(fit_variations) :
              least_square_solve_p_given_t(fit_points, fit_variations[k]) = FitError
       THEN FitPanic /\ UNCHANGED <<fit_t_values, fit_segment, fit_prev_loss>>
       ELSE \E k \in 1..Len(fit_variations), improved \in BOOLEAN, worse \in BOOLEAN :
                LET best_t_values == fit_variations[k]
                    best_loss ==
                        residual_norm(fit_points, best_t_values,
                                      least_square_solve_p_given_t(fit_points, best_t_values))
                    original_loss == residual_norm(fit_points, fit_t_values, fit_segment)
                    new_t_values == IF improved THEN best_t_values ELSE fit_t_values
                    new_loss == IF improved THEN best_loss ELSE original_loss
                    smaller == IF improved THEN {<<best_loss, original_loss>>} ELSE {}
                IN  /\ improved => LossCanBeLess(best_loss, original_loss, {})
                    /\ worse => LossCanBeLess(fit_prev_loss, new_loss, smaller)
                    /\ IF worse
                       THEN FitReturn("Ok") /\ UNCHANGED <<fit_t_values, fit_segment, fit_prev_loss>>
                       ELSE /\ fit_t_values' = new_t_values
                            /\ fit_prev_loss' = new_loss
                            /\ fit_segment' = least_square_solve_p_given_t(fit_points, fit_t_values')
                            /\ IF fit_segment' = FitError THEN FitReturn("Err")
                               ELSE pc' = "fit_round" /\ UNCHANGED <<fit_result, outcome>>
    /\ fit_tick' = 1 - fit_tick
    /\ UNCHANGED <<fit_round, fit_width, fit_turns, fit_within, fit_delta_t, fit_losses,
                   fit_variations>>
    /\ FitFrame

NextFit ==
    \/ SolveGivenT
    \/ FitWithHeuristic
    \/ FitIterativeCall
    \/ FitRound
    \/ FitSearch
    \/ AlternatingUpdate
    \/ VarproDelta
    \/ VarproLineSearch
    \/ VarproVariation
    \/ VarproBest

\* a step of the running call
FitTurn ==
    /\ mode = "fit"
    /\ pc # "fit_done"
    /\ fit_tick' = 1 - fit_tick

\* a call that was made keeps running: its next step is taken
FitSpec == InitFit /\ [][NextFit]_vars /\ WF_fit_tick(FitTurn)

(***************************************************************************)
(* The editor: tool switching and point selection                          *)
(***************************************************************************)

\* enum Tool
Tool == {"Select", "Split", "CreateCurve", "Hand", "Zoom", "Merge"}

\* the keys of the permanent tool switch
ToolKeys == {"KeyV", "KeyS", "KeyC", "KeyG", "KeyZ", "KeyM"}

\* the press and release events of one key that one frame can hold
MaxKeyEvents == 2

\* the Point entities of the world
MaxEntities == 5

\* the control points that can be selected at a time
MaxSelected == 4

PointEntities == 1..MaxEntities

\* the events alternate: a key that is up is pressed first, one that is down
\* is released first
JustPressed(down, n) == IF down THEN n >= 2 ELSE n >= 1

JustReleased(down, n) == IF down THEN n >= 1 ELSE n >= 2

DownAfter(down, n) == IF n % 2 = 0 THEN down ELSE ~down

\* the permanent switch: the checks run in the order V, S, C, G, Z, M and the
\* last one that matches wins
new_tool(keys) ==
    IF "KeyM" \in keys THEN "Merge"
    ELSE IF "KeyZ" \in keys THEN "Zoom"
    ELSE IF "KeyG" \in keys THEN "Hand"
    ELSE IF "KeyC" \in keys THEN "CreateCurve"
    ELSE IF "KeyS" \in keys THEN "Split"
    ELSE IF "KeyV" \in keys THEN "Select"
    ELSE "none"

\* position(|&e| e == point_entity)
position(point_entities, point_entity) ==
    CHOOSE i \in 1..Len(point_entities) :
        /\ point_entities[i] = point_entity
        /\ \A j \in 1..(i - 1) : point_entities[j] # point_entity

\* find_curve_containing_point: the curves whose lookup can answer first, in
\* the order the query happens to iterate
find_curve_containing_point(point_entity, curve_query) ==
    {<<curve_entity, position(curve_query[curve_entity], point_entity) - 1>> :
        curve_entity \in {c \in DOMAIN curve_query :
                             \E i \in 1..Len(curve_query[c]) : curve_query[c][i] = point_entity}}

\* the worlds the selection runs on: no curve, one cubic, two curves that
\* share the point entity 2; the entity 5 belongs to no curve
ToolWorlds == {<<>>, <<<<1, 2, 3, 4>>>>, <<<<1, 2>>, <<2, 3, 4>>>>}

InitTool ==
    /\ mode = "tool"
    /\ NoGeometry
    /\ NoMergeSeq
    /\ NoCurve
    /\ NoHeuristic
    /\ NoFit
    /\ NoReorder
    /\ NoCreation
    /\ NoDelete
    /\ NoMerge
    /\ NoTools
    /\ selected_points = <<>>
    /\ world_curves \in ToolWorlds
    /\ pc = "tool"
    /\ outcome = "none"

LibFrame == UNCHANGED <<mode, geo_vars, ms_vars, cv_vars, th_vars, fit_vars, ro_vars, outcome>>

\* handle_tool_switching, once per frame before InputSet
HandleToolSwitching ==
    /\ mode = "tool"
    /\ pc = "tool"
    /\ \E n \in 0..MaxKeyEvents, keys \in SUBSET ToolKeys :
           /\ space_just_pressed' = JustPressed(kb_space, n)
           /\ space_just_released' = JustReleased(kb_space, n)
           /\ kb_space' = DownAfter(kb_space, n)
           /\ tool_at_space_press' =
                  IF space_just_pressed' THEN current_tool ELSE tool_at_space_press
           /\ IF space_just_pressed' /\ ~is_space_held
              THEN /\ previous_tool' = current_tool
                   /\ current_tool' = "Hand"
                   /\ is_space_held' = TRUE
              ELSE IF space_just_released' /\ is_space_held
              THEN /\ current_tool' = previous_tool
                   /\ is_space_held' = FALSE
                   /\ UNCHANGED previous_tool
              ELSE /\ current_tool' = IF ~is_space_held /\ new_tool(keys) # "none"
                                      THEN new_tool(keys)
                                      ELSE current_tool
                   /\ UNCHANGED <<previous_tool, is_space_held>>
    /\ pc' = "select"
    /\ UNCHANGED <<world_vars, cc_vars, del_vars, mg_vars>>
    /\ LibFrame

\* the variant that resets the selection for no tool but Select
KeepsSelection_always(tool) == TRUE

\* the tools the selection outlives
KeepsSelection(tool) == tool = "Merge"

\* handle_point_selection, in InputSet
HandlePointSelection ==
    /\ mode = "tool"
    /\ pc = "select"
    /\ IF current_tool # "Select"
       THEN selected_points' = IF KeepsSelection(current_tool) THEN selected_points ELSE <<>>
       ELSE \E mouse_just_pressed \in BOOLEAN, closest \in {0} \cup PointEntities :
               IF ~mouse_just_pressed
               THEN UNCHANGED selected_points
               ELSE IF closest = 0 \/ find_curve_containing_point(closest, world_curves) = {}
               THEN selected_points' = <<>>
               ELSE \E found \in find_curve_containing_point(closest, world_curves) :
                        selected_points' = <<[curve_entity |-> found[1],
                                              point_index |-> found[2],
                                              point_entity |-> closest]>>
    /\ pc' = "tool"
    /\ UNCHANGED <<tool_vars, world_curves, cc_vars, del_vars, mg_vars>>
    /\ LibFrame

NextTool == HandleToolSwitching \/ HandlePointSelection

ToolSpec == InitTool /\ [][NextTool]_vars

(***************************************************************************)
(* The editor: curve creation                                              *)
(***************************************************************************)

\* Some(entity)
Some(entity) == <<entity>>

\* the variant of reset that keeps last_point_entity
reset_last_keeps(last) == last

\* CurveCreationToolState::reset: what it leaves in last_point_entity
reset_last(last) == None

\* the variant that spawns the curve one click early
SpawnsCurve_early(point_count) == point_count >= 3

\* if point_count == 4
SpawnsCurve(point_count) == point_count = 4

InitCreate ==
    /\ mode = "create"
    /\ NoGeometry
    /\ NoMergeSeq
    /\ NoCurve
    /\ NoHeuristic
    /\ NoFit
    /\ NoReorder
    /\ NoEditor
    /\ NoCreation
    /\ NoDelete
    /\ NoMerge
    /\ pc = "ready"
    /\ outcome = "none"

\* the clicks of the collection so far; a collection that ended with a spawn
\* starts anew
Collected == IF Len(cc_clicks) = 4 THEN <<>> ELSE cc_clicks

\* handle_curve_creation, once per frame in EditSet; tool is the current tool
\* the frame's handle_tool_switching left, point_entity the answer of
\* find_or_create_point_for_snapping
HandleCurveCreation ==
    /\ mode = "create"
    /\ \E tool \in Tool, mouse_just_pressed \in BOOLEAN, point_entity \in PointEntities :
           /\ current_tool' = tool
           /\ IF tool # "CreateCurve"
              THEN /\ curve_creation_state' = "Idle"
                   /\ curve_creation_point_entities' = <<>>
                   /\ last_point_entity' = reset_last(last_point_entity)
                   /\ cc_clicks' = <<>>
                   /\ cc_accepted' = FALSE
                   /\ cc_spawned' = None
              ELSE IF ~mouse_just_pressed \/ last_point_entity = Some(point_entity)
              THEN /\ UNCHANGED <<curve_creation_state, curve_creation_point_entities,
                                  last_point_entity>>
                   /\ cc_clicks' = Collected
                   /\ cc_accepted' = FALSE
                   /\ cc_spawned' = None
              ELSE LET entities == IF curve_creation_state = "Idle"
                                   THEN <<point_entity>>
                                   ELSE Append(curve_creation_point_entities, point_entity)
                       spawns == curve_creation_state = "CollectingPoints"
                                     /\ SpawnsCurve(Len(entities))
                   IN  /\ cc_clicks' = Append(Collected, point_entity)
                       /\ cc_accepted' = TRUE
                       /\ cc_spawned' = IF spawns THEN Some(entities) ELSE None
                       /\ curve_creation_point_entities' = IF spawns THEN <<>> ELSE entities
                       /\ curve_creation_state' = IF spawns THEN "Idle" ELSE "CollectingPoints"
                       /\ last_point_entity' = IF spawns
                                               THEN reset_last(Some(point_entity))
                                               ELSE Some(point_entity)
    /\ pc' = "created"
    /\ UNCHANGED <<previous_tool, is_space_held, kb_space, space_just_pressed,
                   space_just_released, tool_at_space_press, world_vars, del_vars, mg_vars>>
    /\ LibFrame

NextCreate == HandleCurveCreation

CreateSpec == InitCreate /\ [][NextCreate]_vars

(***************************************************************************)
(* The editor: the delete action                                           *)
(***************************************************************************)

\* the worlds the delete action runs on; point entities are shared where
\* curves were snapped together
DeleteWorlds ==
    {<<<<1, 2, 3, 4>>>>, <<<<1, 2>>, <<2, 3, 4>>>>, <<<<1, 2, 3>>, <<3, 4>>, <<4, 5>>>>}

\* the control points of a world: SelectedControlPoint values with a
\* 0-based point_index
ControlPoints(world) ==
    UNION {{[curve_entity |-> c, point_index |-> i - 1, point_entity |-> world[c][i]] :
               i \in 1..Len(world[c])} : c \in DOMAIN world}

\* every order of a set as a list
RECURSIVE ListsOf(_)
ListsOf(S) ==
    IF S = {} THEN {<<>>}
    ELSE UNION {{<<x>> \o l : l \in ListsOf(S \ {x})} : x \in S}

\* points_by_curve[curve_entity], in the order of selected_points
RECURSIVE points_by_curve(_, _)
points_by_curve(selected, curve_entity) ==
    IF selected = <<>> THEN <<>>
    ELSE (IF Head(selected).curve_entity = curve_entity
          THEN <<Head(selected).point_index>>
          ELSE <<>>) \o points_by_curve(Tail(selected), curve_entity)

\* sort_unstable() and reverse(): the indices in descending order
RECURSIVE sorted_indices(_)
sorted_indices(indices) ==
    IF indices = <<>> THEN <<>>
    ELSE LET k == CHOOSE k \in 1..Len(indices) :
                      \A j \in 1..Len(indices) : indices[j] <= indices[k]
         IN  <<indices[k]>> \o sorted_indices(SubSeq(indices, 1, k - 1)
                                               \o SubSeq(indices, k + 1, Len(indices)))

\* Vec::remove(index) for each index in turn, skipping those out of range
RECURSIVE remove_indices(_, _)
remove_indices(point_entities, indices) ==
    IF indices = <<>> THEN point_entities
    ELSE LET index == Head(indices)
         IN  remove_indices(IF index < Len(point_entities)
                            THEN SubSeq(point_entities, 1, index)
                                     \o SubSeq(point_entities, index + 2, Len(point_entities))
                            ELSE point_entities,
                            Tail(indices))

\* the variant that keeps a curve of one point
DespawnsShort_below_one(count) == count < 1

\* if new_point_entities.len() < 2
DespawnsShort(count) == count < 2

\* what the commands of the delete action leave of one curve: None when it is
\* despawned
AfterDelete(point_entities, selected_indices) ==
    IF selected_indices = <<>> THEN Some(point_entities)
    ELSE IF Len(selected_indices) = Len(point_entities) THEN None
    ELSE LET new_point_entities ==
                 remove_indices(point_entities, sorted_indices(selected_indices))
         IN  IF DespawnsShort(Len(new_point_entities)) THEN None
             ELSE Some(new_point_entities)

InitDelete ==
    /\ mode = "delete"
    /\ NoGeometry
    /\ NoMergeSeq
    /\ NoCurve
    /\ NoHeuristic
    /\ NoFit
    /\ NoReorder
    /\ NoCreation
    /\ NoDelete
    /\ NoMerge
    /\ NoTools
    /\ world_curves \in DeleteWorlds
    /\ \E S \in SUBSET ControlPoints(world_curves) :
           /\ Cardinality(S) <= MaxSelected
           /\ selected_points \in ListsOf(S)
    /\ pc = "ready"
    /\ outcome = "none"

\* handle_delete_action, once per frame in EditSet; the commands are applied
\* when the system has run
HandleDeleteAction ==
    /\ mode = "delete"
    /\ \E tool \in {"Select", "Merge"}, delete_just_pressed \in BOOLEAN :
           /\ current_tool' = tool
           /\ del_curves' = world_curves
           /\ del_selected' = selected_points
           /\ IF tool # "Select" \/ ~delete_just_pressed \/ selected_points = <<>>
              THEN /\ del_ran' = FALSE
                   /\ UNCHANGED world_vars
              ELSE LET kept == [c \in DOMAIN world_curves |->
                                   AfterDelete(world_curves[c],
                                               points_by_curve(selected_points, c))]
                   IN  /\ del_ran' = TRUE
                       /\ world_curves' = [c \in {e \in DOMAIN kept : kept[e] # None} |->
                                               kept[c][1]]
                       /\ selected_points' = <<>>
    /\ pc' = "deleted"
    /\ UNCHANGED <<previous_tool, is_space_held, kb_space, space_just_pressed,
                   space_just_released, tool_at_space_press, cc_vars, mg_vars>>
    /\ LibFrame

NextDelete == HandleDeleteAction

DeleteSpec == InitDelete /\ [][NextDelete]_vars

(***************************************************************************)
(* The editor: the merge action                                            *)
(***************************************************************************)

\* the loop of merge_curves_sequentially from the pair (i, i + 1) on, on
\* curves of at least one point: the first adjacent pair that merges is
\* spliced and the scan starts anew
RECURSIVE merge_scan(_, _)
merge_scan(cs, i) ==
    IF i > Len(cs) - 1 THEN cs
    ELSE LET merged_curve == MergeAttempt(cs[i], cs[i + 1])
         IN  IF IsSome(merged_curve)
             THEN merge_scan(Splice(cs, i, merged_curve), 1)
             ELSE merge_scan(cs, i + 1)

\* merge_curves_sequentially(curves)
merge_curves_sequentially(cs) == merge_scan(cs, 1)

\* the lines drawn one after the other through the given positions, each
\* snapped to the end of the one before: point entity i lies at positions[i],
\* curve i joins the point entities i and i + 1
Polyline(positions) ==
    [curves |-> [c \in 1..(Len(positions) - 1) |-> <<c, c + 1>>], points |-> positions]

\* two, three and four pieces of one line; two lines that meet at an angle;
\* two pieces of one line and a third line at an angle
MergeWorlds ==
    {Polyline(<<Pt(0, 0), Pt(1, 0), Pt(2, 0)>>),
     Polyline(<<Pt(0, 0), Pt(1, 0), Pt(2, 0), Pt(3, 0)>>),
     Polyline(<<Pt(0, 0), Pt(1, 0), Pt(2, 0), Pt(3, 0), Pt(4, 0)>>),
     Polyline(<<Pt(0, 0), Pt(1, 0), Pt(2, 1)>>),
     Polyline(<<Pt(0, 0), Pt(1, 0), Pt(2, 0), Pt(3, 1)>>)}

\* BezierCurve::resolve_positions: None when a point entity is gone
resolve_positions(point_entities, point_query) ==
    IF \A i \in 1..Len(point_entities) : point_entities[i] \in DOMAIN point_query
    THEN [i \in 1..Len(point_entities) |-> point_query[point_entities[i]]]
    ELSE None

\* the largest entity of a set, 0 for the empty set
LastEntity(S) == IF S = {} THEN 0 ELSE CHOOSE x \in S : \A y \in S : y <= x

\* the entities of the selected points' curves
involved_curves(selected) == {selected[k].curve_entity : k \in 1..Len(selected)}

\* the number of points of the first k curves of a list
RECURSIVE PointsBefore(_, _)
PointsBefore(cs, k) == IF k = 0 THEN 0 ELSE PointsBefore(cs, k - 1) + Len(cs[k])

\* the control points of a set as a list, curve by curve and point by point
RECURSIVE SelectionList(_)
SelectionList(S) ==
    IF S = {} THEN <<>>
    ELSE LET first == CHOOSE r \in S :
                          \A q \in S : \/ r.curve_entity < q.curve_entity
                                        \/ /\ r.curve_entity = q.curve_entity
                                           /\ r.point_index <= q.point_index
         IN  <<first>> \o SelectionList(S \ {first})

\* the entities of a query without the despawned ones
Despawned(query, entities) == [e \in DOMAIN query \ entities |-> query[e]]

\* the entities of a query and one new entity, after the last one in use,
\* for each component of the list
Spawned(query, last, components) ==
    [e \in DOMAIN query \cup {last + k : k \in 1..Len(components)} |->
        IF e \in DOMAIN query THEN query[e] ELSE components[e - last]]

\* the points of the curves of a list, one curve after the other
RECURSIVE Flatten(_)
Flatten(cs) == IF cs = <<>> THEN <<>> ELSE Head(cs) \o Flatten(Tail(cs))

InitMergeAction ==
    /\ mode = "merge"
    /\ NoGeometry
    /\ NoMergeSeq
    /\ NoCurve
    /\ NoHeuristic
    /\ NoFit
    /\ NoReorder
    /\ NoCreation
    /\ NoDelete
    /\ NoTools
    /\ \E world \in MergeWorlds :
           /\ world_curves = world.curves
           /\ world_points = world.points
    /\ \E S \in SUBSET ControlPoints(world_curves) :
           /\ Cardinality(S) <= MaxSelected
           /\ selected_points = SelectionList(S)
    /\ mg_ran = "no"
    /\ mg_order = <<>>
    /\ mg_curves = <<>>
    /\ mg_points = <<>>
    /\ pc = "ready"
    /\ outcome = "none"

\* handle_merge_action, once per frame in EditSet, with create_merged_curves;
\* the commands are applied when the system has run.  A frame without the M
\* key iterates nothing: its curve_entities is the empty list; in a frame
\* with the M key handle_tool_switching has made Merge the current tool
HandleMergeAction ==
    /\ mode = "merge"
    /\ \E curve_entities \in {<<>>} \cup ListsOf(involved_curves(selected_points)) :
       \E tool \in IF curve_entities = <<>> THEN {"Select", "Merge"} ELSE {"Merge"} :
           LET m_just_pressed == curve_entities # <<>>
               curve_positions ==
                   [k \in 1..Len(curve_entities) |->
                       resolve_positions(world_curves[curve_entities[k]], world_points)]
               original_curves == {curve_entities[k] : k \in 1..Len(curve_entities)}
               all_point_entities ==
                   UNION {{world_curves[c][i] : i \in 1..Len(world_curves[c])} :
                             c \in original_curves}
           IN  /\ current_tool' = tool
               /\ mg_curves' = world_curves
               /\ mg_points' = world_points
               /\ IF ~m_just_pressed \/ selected_points = <<>>
                  THEN /\ mg_ran' = "no"
                       /\ mg_order' = <<>>
                       /\ UNCHANGED <<world_vars, world_points>>
                  ELSE IF Len(curve_entities) < 2
                  THEN /\ mg_ran' = "one curve"
                       /\ mg_order' = curve_entities
                       /\ UNCHANGED <<world_vars, world_points>>
                  ELSE IF \/ \E k \in 1..Len(curve_entities) :
                                 curve_entities[k] \notin DOMAIN world_curves
                          \/ \E k \in 1..Len(curve_entities) : curve_positions[k] = None
                  THEN /\ mg_ran' = "unresolved"
                       /\ mg_order' = curve_entities
                       /\ UNCHANGED <<world_vars, world_points>>
                  ELSE \E merged_curves \in {merge_curves_sequentially(curve_positions)} :
                       IF Len(merged_curves) = Len(curve_positions)
                       THEN /\ mg_ran' = "nothing merged"
                            /\ mg_order' = curve_entities
                            /\ UNCHANGED <<world_vars, world_points>>
                       ELSE /\ mg_ran' = "merged"
                            /\ mg_order' = curve_entities
                            /\ world_curves' =
                                   Spawned(Despawned(world_curves, original_curves),
                                           LastEntity(DOMAIN world_curves),
                                           [k \in 1..Len(merged_curves) |->
                                               [i \in 1..Len(merged_curves[k]) |->
                                                   LastEntity(DOMAIN world_points)
                                                       + PointsBefore(merged_curves, k - 1) + i]])
                            /\ world_points' =
                                   Spawned(Despawned(world_points, all_point_entities),
                                           LastEntity(DOMAIN world_points),
                                           Flatten(merged_curves))
                            /\ selected_points' = <<>>
    /\ pc' = "merge_done"
    /\ UNCHANGED <<previous_tool, is_space_held, kb_space, space_just_pressed,
                   space_just_released, tool_at_space_press, cc_vars, del_vars>>
    /\ LibFrame

NextMergeAction == HandleMergeAction

MergeActionSpec == InitMergeAction /\ [][NextMergeAction]_vars

(***************************************************************************)
(* Properties                                                              *)
(***************************************************************************)
\* |a - b| <= tol in each coordinate (assert_abs_diff_eq with epsilon = tol)
Within(a, b, tol) ==
    /\ QLe(QAbs(QSub(a[1], b[1])), tol)
    /\ QLe(QAbs(QSub(a[2], b[2])), tol)

SeqWithin(u, v, tol) ==
    /\ Len(u) = Len(v)
    /\ \A i \in 1..Len(u) : Within(u[i], v[i], tol)

InsideUnit(t) == QLt(QZero, t) /\ QLt(t, QOne)

SplitMerged == pc = "split_merge" /\ InsideUnit(tpar)

\* C1 as stated: for every sequence of 2, 3 or 4 control points and every t
\* strictly between 0 and 1, merging the halves of split_at(t) succeeds and
\* gives back the original control points within 1e-3.
C1_RoundTripAlways ==
    SplitMerged => IsSome(merged) /\ SeqWithin(merged, cp, MergeTolerance)

\* a quadratic that runs out and back, split at its turning point and merged
C1_Witness ==
    /\ SplitMerged
    /\ cp = <<Pt(0, 0), Pt(1, 0), Pt(0, 0)>>
    /\ tpar = <<1, 2>>
    /\ IsSome(merged)
    /\ IsNaN(merged[2][1])

\* C2: split_at(t) of 2, 3 or 4 control points returns two sequences of the
\* input's length; the left one ends exactly where the right one starts, the
\* left one starts at the original first point and the right one ends at the
\* original last point, for every t.
C2_SplitShape ==
    pc = "split" /\ outcome = "value" =>
        /\ Len(left) = Len(cp)
        /\ Len(right) = Len(cp)
        /\ left[Len(left)] = right[1]
        /\ left[1] = cp[1]
        /\ right[Len(right)] = cp[Len(cp)]

\* a cubic with distinct ends split outside [0, 1]
C2_Witness ==
    /\ pc = "split"
    /\ outcome = "value"
    /\ Len(cp) = 4
    /\ cp[1] # cp[4]
    /\ tpar = <<3, 2>>
    /\ left[4] # cp[1]
    /\ left[4] # cp[4]

PairMerged == pc = "pair_merge" /\ outcome = "value"

\* the closed range <<lo, hi>> of the t with |a + t * d - c| <= tol; it is
\* <<-inf, +inf>> when every t does and <<+inf, -inf>> when none does
ParamRange(a, d, c, tol) ==
    IF ~IsFinite(a) \/ ~IsFinite(d) \/ ~IsFinite(c) THEN <<PosInf, NegInf>>
    ELSE IF d[1] = 0
         THEN (IF QLe(QAbs(QSub(a, c)), tol) THEN <<NegInf, PosInf>> ELSE <<PosInf, NegInf>>)
    ELSE LET u == QDiv(QSub(QSub(c, tol), a), d)
             v == QDiv(QSub(QAdd(c, tol), a), d)
         IN  IF QLt(u, v) THEN <<u, v>> ELSE <<v, u>>

Meet(r, s) == <<QMax(r[1], s[1]), QMin(r[2], s[2])>>

\* the t with Lerp(p, q, t) within tol of c in each coordinate
LerpRange(p, q, c, tol) ==
    Meet(ParamRange(p[1], QSub(q[1], p[1]), c[1], tol),
         ParamRange(p[2], QSub(q[2], p[2]), c[2], tol))

\* the range holds a t with 0 < t < 1
MeetsUnit(r) == QLe(r[1], r[2]) /\ QLt(r[1], QOne) /\ QGt(r[2], QZero)

\* The t at which splitting m could give back l and r within tol.  A split
\* at t puts the control point after the first at Lerp(m[1], m[2], t) and the
\* one before the last at Lerp(m[n-1], m[n], t) (for a line both are the
\* split point), so every such t lies in both ranges.
SplitParamRange(m, l, r, tol) ==
    LET n == Len(m)
    IN  IF n = 2
        THEN Meet(LerpRange(m[1], m[2], l[2], tol), LerpRange(m[1], m[2], r[1], tol))
        ELSE Meet(LerpRange(m[1], m[2], l[2], tol), LerpRange(m[n - 1], m[n], r[n - 1], tol))

\* C3: merge returns a segment m only if for some t with 0 < t < 1 the split
\* of m at t gives back left and right within the tolerance: m keeps the
\* outer ends and the range of such t is not empty inside (0, 1).
C3_MergedSplitsBack ==
    PairMerged /\ IsSome(merged) =>
        /\ Len(merged) = Len(left)
        /\ Within(merged[1], left[1], MergeTolerance)
        /\ Within(merged[Len(merged)], right[Len(right)], MergeTolerance)
        /\ MeetsUnit(SplitParamRange(merged, left, right, MergeTolerance))

\* two collinear lines, the second running back over the first, are merged
\* into a single point
C3_Witness ==
    /\ PairMerged
    /\ left = <<Pt(0, 0), Pt(1, 1)>>
    /\ right = <<Pt(1, 1), Pt(0, 0)>>
    /\ merged = <<Pt(0, 0), Pt(0, 0)>>

\* dy / dx of a two-point curve
Slope(c) == QDiv(QSub(c[2][2], c[1][2]), QSub(c[2][1], c[1][1]))

\* the slopes differ by more than 1e-3; two vertical lines (both slopes
\* infinite) have no slopes to compare
SlopesDiffer(l, r) ==
    /\ ~(IsInf(Slope(l)) /\ IsInf(Slope(r)))
    /\ QGt(QAbs(QSub(Slope(l), Slope(r))), MergeTolerance)

NearVertical(c) == QLt(QAbs(QSub(c[2][1], c[1][1])), MergeTolerance)

LinePair == PairMerged /\ Len(left) = 2 /\ Len(right) = 2

\* C6 as stated: two line segments whose slopes differ by more than 1e-3 are
\* not merged.
C6_SlopesDifferNone ==
    LinePair /\ SlopesDiffer(left, right) => merged = None

\* C6 outside the vertical-line shortcut: two line segments whose slopes
\* differ by more than 1e-3 are not merged when one of them has |dx| >= 1e-3.
C6_SlopesDifferNoneUnlessVertical ==
    LinePair /\ SlopesDiffer(left, right) /\ ~(NearVertical(left) /\ NearVertical(right))
        => merged = None

\* two lines that meet at a corner, one of them not near-vertical
C6_Witness ==
    /\ LinePair
    /\ left[2] = right[1]
    /\ SlopesDiffer(left, right)
    /\ IsFinite(Slope(left))
    /\ IsFinite(Slope(right))
    /\ ~NearVertical(right)
    /\ merged = None

\* the gap between the end of left and the start of right
Gap == PSub(left[Len(left)], right[1])

\* C7 as stated: merge returns None whenever the inputs have different
\* numbers of control points or the distance from the end of left to the
\* start of right is not below 1e-3.
C7_NoneUnlessBelowTolerance ==
    PairMerged /\ (Len(left) # Len(right) \/ ~LengthLt(Gap, MergeTolerance))
        => merged = None

\* C7 amended: merge returns None whenever the inputs have different numbers
\* of control points or the distance from the end of left to the start of
\* right is greater than 1e-3.
C7_NoneWhenAboveTolerance ==
    PairMerged /\ (Len(left) # Len(right) \/ LengthGt(Gap, MergeTolerance))
        => merged = None

\* two vertical lines of equal length, one unit apart
C7_Witness ==
    /\ PairMerged
    /\ Len(left) = 2
    /\ Len(right) = 2
    /\ NearVertical(left)
    /\ NearVertical(right)
    /\ LengthGt(Gap, MergeTolerance)
    /\ merged = None

MergeSeqReturned == mode = "mergeseq" /\ pc = "ms_done" /\ outcome = "value"

\* C4: merge_curves_sequentially applied to its own output returns that list
\* unchanged.
C4_Idempotent ==
    MergeSeqReturned /\ round = 2 => curves = first_out

\* three curves of which two were merged by the first call
C4_Witness ==
    /\ MergeSeqReturned
    /\ round = 2
    /\ Len(input_curves) = 3
    /\ Len(first_out) = 2
    /\ curves = first_out

\* cs2 is cs1 with two adjacent entries replaced by one
ReplacesTwoByOne(cs1, cs2) ==
    /\ Len(cs2) = Len(cs1) - 1
    /\ \E i \in 1..Len(cs2) :
           \A j \in 1..Len(cs2) :
               /\ (j < i => cs2[j] = cs1[j])
               /\ (j > i => cs2[j] = cs1[j + 1])

\* C5: merge_curves_sequentially terminates; the scan restarts only after a
\* merge, which replaces two adjacent entries by one; and the function
\* returns, leaving the list as it is, after the first pass that examined
\* every adjacent pair and merged none.
C5_TerminatesAfterFullPass ==
    /\ [](pc = "ms_scan" => <>(pc = "ms_done"))
    /\ [][pc = "ms_pass_end" /\ pc' = "ms_scan" => any_merged]_vars
    /\ [][~any_merged /\ any_merged' => ReplacesTwoByOne(curves, curves')]_vars
    /\ [][pc = "ms_pass_end" /\ ~any_merged => pc' = "ms_done" /\ curves' = curves]_vars
    /\ [](pc = "ms_pass_end" /\ ~any_merged => ms_i = Len(curves))

\* three pieces of one line merged into one: two restarts and a last pass
C5_Witness ==
    /\ MergeSeqReturned
    /\ round = 1
    /\ Len(input_curves) = 3
    /\ curves = <<(<<Pt(0, 0), Pt(3, 0)>>)>>

\* C9: evaluate, split and nearest-point, called on control points of a
\* length other than 2, 3 and 4 or on an Arc, end in a panic and never in a
\* value.
C9_UnsupportedPanics ==
    pc \in {"evaluate", "split", "nearest"} /\ (seg_kind = "Arc" \/ Unsupported(cp))
        => outcome = "panic"

\* nearest_point on an Arc answers as for the line between its ends
C9_Witness ==
    /\ pc = "nearest"
    /\ seg_kind = "Arc"
    /\ cp = <<Pt(0, 0), Pt(10, 0)>>
    /\ outcome = "value"
    /\ near = <<Pt(0, 0), QZero>>

\* the distance d is below 1e-6
BelowMicro(d) == DistanceLess(d, <<(<<1, 1000000>>), QZero>>)

\* nearest_point has returned for a target that is evaluate(t0), 0 <= t0 <= 1
NearestOfCurvePoint ==
    /\ mode = "nearest"
    /\ pc = "nearest"
    /\ outcome = "value"
    /\ seg_kind # "Arc"
    /\ QLe(QZero, tpar)
    /\ QLe(tpar, QOne)
    /\ result = evaluate_bezier_curve_segment(cp, tpar)

\* C10 as stated: for every supported segment and every t0 in [0, 1],
\* nearest_point of p = evaluate(t0) returns a point at a distance below 1e-6
\* from p and a parameter within 0.1 of t0.
C10_NearestRecovers ==
    NearestOfCurvePoint =>
        /\ BelowMicro(Distance(near[1], result))
        /\ QLt(QAbs(QSub(near[2], tpar)), <<1, 10>>)

IsSample(t) == \E i \in 0..LUT_SIZE : t = SampleT(i)

\* no sample before t lies within 1e-6 of p
NoEarlierSampleAt(c, t, p) ==
    \A i \in 0..LUT_SIZE :
        QLt(SampleT(i), t) =>
            ~BelowMicro(Distance(evaluate_bezier_curve_segment(c, SampleT(i)), p))

\* C10 amended: for every supported segment and every t0 among the samples
\* i/100, nearest_point of p = evaluate(t0) returns a point at a distance
\* below 1e-6 from p and a parameter that is at most t0, and is t0 when no
\* earlier sample lies within 1e-6 of p.
C10_NearestRecoversSamples ==
    NearestOfCurvePoint /\ IsSample(tpar) =>
        /\ BelowMicro(Distance(near[1], result))
        /\ QLe(near[2], tpar)
        /\ (NoEarlierSampleAt(cp, tpar, result) => near[2] = tpar)

\* the middle of an open cubic, evaluated and found again
C10_Witness ==
    /\ NearestOfCurvePoint
    /\ cp = <<Pt(0, 0), Pt(1, 1), Pt(2, 1), Pt(3, 0)>>
    /\ tpar = <<1, 2>>
    /\ result # Origin
    /\ near = <<result, tpar>>

\* every entry is at most the next one
NonDecreasing(ts) == \A i \in 1..(Len(ts) - 1) : QLe(ts[i], ts[i + 1])

\* a heuristic has returned for at least two points
EstimatedMany == mode = "heuristic" /\ pc = "estimate" /\ Len(th_points) >= 2

\* the points do not all coincide
SomeTwoDiffer(points) == \E i \in 1..Len(points) : points[i] # points[1]

\* C14 as stated: for each heuristic and every input of at least two points
\* the output has the input's length, is non-decreasing, starts with 0 and
\* ends with 1.
C14_HeuristicShapeAlways ==
    EstimatedMany =>
        /\ Len(th_out) = Len(th_points)
        /\ NonDecreasing(th_out)
        /\ th_out[1] = QZero
        /\ th_out[Len(th_out)] = QOne

\* C14 amended: for each heuristic and every input of at least two points
\* the output has the input's length, is non-decreasing and starts with 0;
\* it ends with 1 for Uniform, and for ChordLength and Centripetal when the
\* points do not all coincide.
C14_HeuristicShape ==
    EstimatedMany =>
        /\ Len(th_out) = Len(th_points)
        /\ NonDecreasing(th_out)
        /\ th_out[1] = QZero
        /\ (th_heuristic = "Uniform" \/ SomeTwoDiffer(th_points)
                => th_out[Len(th_out)] = QOne)

\* chord length over four points, the second repeated: 0, 4/7, 4/7, 1
C14_Witness ==
    /\ EstimatedMany
    /\ th_heuristic = "ChordLength"
    /\ th_points = <<Pt(0, 0), Pt(4, 0), Pt(4, 0), Pt(4, 3)>>
    /\ th_out = <<QZero, <<4, 7>>, <<4, 7>>, QOne>>

\* C15: every heuristic returns [] for no point and [0.0] for one point;
\* ChordLength and Centripetal return all zeros, one per point, for two or
\* more points of total length zero.
C15_HeuristicEdgeCases ==
    mode = "heuristic" /\ pc = "estimate" =>
        /\ (th_points = <<>> => th_out = <<>>)
        /\ (Len(th_points) = 1 => th_out = <<QZero>>)
        /\ (Len(th_points) >= 2 /\ th_heuristic # "Uniform" /\ ~SomeTwoDiffer(th_points)
                => th_out = [i \in 1..Len(th_points) |-> QZero])

\* three coincident points under the centripetal heuristic
C15_Witness ==
    /\ mode = "heuristic"
    /\ pc = "estimate"
    /\ th_heuristic = "Centripetal"
    /\ th_points = <<Pt(4, 3), Pt(4, 3), Pt(4, 3)>>
    /\ th_out = <<QZero, QZero, QZero>>

\* the end points of a non-empty segment list
FirstOf(segments) == segments[1][2][1]

LastOf(segments) == segments[Len(segments)][2][Len(segments[Len(segments)][2])]

\* the two points are equal within FLOAT_TOLERANCE in both coordinates
EqualWithinEps(p, q) ==
    /\ AbsLtPow10(QSub(p[1], q[1]), FLOAT_TOLERANCE_EXP)
    /\ AbsLtPow10(QSub(p[2], q[2]), FLOAT_TOLERANCE_EXP)

BackAndForth == <<Pt(0, 0), Pt(1, 0), Pt(0, 0), Pt(1, 0), Pt(0, 0)>>

\* a call of the fit has ended
FitEnded == mode = "fit" /\ pc = "fit_done"

\* C11: every fitting entry point returns a typed result for every input:
\* a call that has ended has returned Ok or Err and has not panicked.
C11_TypedResult ==
    FitEnded => outcome = "value" /\ fit_result \in {"Ok", "Err"}

\* five samples on a line whose order along the line reverses three times
Reversing == <<Pt(0, 0), Pt(3, 0), Pt(-1, 0), Pt(2, 0), Pt(-2, 0)>>

\* fit_cubic_bezier_weak_varpro on the five samples has panicked in the
\* first loss of its first line search: the clamp has collapsed the stepped
\* t-values onto 0 and 1, and the solve for them is unwrapped
C11_Witness ==
    /\ FitEnded
    /\ fit_call = "weak_varpro"
    /\ fit_points = Reversing
    /\ fit_round = 1
    /\ fit_losses = 0
    /\ outcome = "panic"
    /\ \E step_size \in StepPool :
           NormalEquationsSingular(StepTValues(fit_t_values, fit_delta_t, step_size))

\* no four of the t-values are pairwise different
FewerThanFourParameters(ts) ==
    \A i, j, k, l \in 1..Len(ts) :
        ts[i] = ts[j] \/ ts[i] = ts[k] \/ ts[i] = ts[l]
            \/ ts[j] = ts[k] \/ ts[j] = ts[l] \/ ts[k] = ts[l]

WellFormedTValues(ts, n) ==
    /\ Len(ts) = n
    /\ \A i \in 1..Len(ts) : QLe(QZero, ts[i]) /\ QLe(ts[i], QOne)
    /\ NonDecreasing(ts)
    /\ ts[1] = QZero
    /\ ts[Len(ts)] = QOne

\* the fit of at least four points has computed its t-values
FitHasTValues ==
    /\ mode = "fit"
    /\ fit_call # "solve"
    /\ pc # "ready"
    /\ Len(fit_points) >= 4

\* C13: every t-value array of a fit (the heuristic start, the array after
\* each update, each weak-varpro variation) has one entry per sample, lies
\* in [0, 1], is non-decreasing, starts with 0 and ends with 1.
C13_TValuesWellFormed ==
    FitHasTValues =>
        /\ WellFormedTValues(fit_t_values, Len(fit_points))
        /\ \A k \in 1..Len(fit_variations) :
               WellFormedTValues(fit_variations[k], Len(fit_points))

\* the nearest-point update of the five samples has returned 0, 1/2, 0,
\* 1/2, 0, and the solve on it has failed
C13_Witness ==
    /\ FitEnded
    /\ fit_call = "alternating"
    /\ fit_option = "NearestPoint"
    /\ fit_points = BackAndForth
    /\ fit_round = 1
    /\ fit_t_values = <<QZero, Norm(1, 2), QZero, Norm(1, 2), QZero>>
    /\ fit_result = "Err"

\* the loops of a fit stay inside their bounds
FitLoopsBounded ==
    mode = "fit" =>
        /\ fit_round <= fit_max_iterations
        /\ fit_turns <= 8
        /\ fit_losses <= 2 + num_steps
        /\ Len(fit_variations) <= 2 + fit_num_random_samples

\* C17: every fitting call terminates: its outer loop takes at most
\* max_iterations turns, the nearest-point refinement at most 8 turns, the
\* golden-section search makes at most 2 + num_steps evaluations, and the
\* call ends.
C17_Terminates == []FitLoopsBounded /\ <>FitEnded

\* a weak-varpro call has ended after all of its max_iterations turns
C17_Witness ==
    /\ FitEnded
    /\ fit_call = "weak_varpro"
    /\ fit_max_iterations = MaxIterations
    /\ fit_round = fit_max_iterations
    /\ fit_num_random_samples = MaxRandomSamples
    /\ fit_result = "Ok"

\* generate_t_variations is about to draw a random variation
DrawsNext ==
    /\ mode = "fit"
    /\ pc = "fit_variations"
    /\ Len(fit_variations) < 1 + fit_num_random_samples

\* the variations it can draw, over all values of the random factors
PossibleDraws ==
    {random_t_values(fit_variations[1], fit_delta_t, random_factors) :
        random_factors \in FactorPool(Len(fit_points))}

\* the variation a source seeded by the caller would hand out here: some
\* one of the possible ones, the same whenever the arguments are the same
SeededDraw == CHOOSE v \in PossibleDraws : TRUE

\* C18: the random variations of weak-varpro come from a seedable source the
\* caller passes in, so that two runs with the same points, parameters and
\* seed draw the same variations: every draw made in a state is the one
\* draw that state determines.
C18_ArgumentsDetermineDraw ==
    [][DrawsNext => fit_variations' = Append(fit_variations, SeededDraw)]_vars

\* five samples that go once round a triangle and along its first side again
AroundTriangle == <<Pt(0, 0), Pt(4, 0), Pt(4, 3), Pt(0, 0), Pt(4, 0)>>

\* two variations of the same base point stand side by side in a list
C18_Witness ==
    /\ mode = "fit"
    /\ fit_call = "weak_varpro"
    /\ fit_points = AroundTriangle
    /\ Len(fit_variations) >= 3
    /\ fit_variations[2] # fit_variations[3]
    /\ fit_variations[2] # fit_variations[1]


\* the running step is the end of update_t_values_weak_varpro and of the
\* turn of the loop around it, and the best candidate has not been adopted
KeepsTValues ==
    /\ mode = "fit"
    /\ pc = "fit_best"
    /\ outcome' # "panic"
    /\ fit_t_values' = fit_t_values

\* C21: in a weak-variable-projection iteration whose best candidate is not
\* adopted (its loss is not strictly below prev_loss), the loop stops at
\* once and the previously solved segment is returned.
C21_StopsWhenNotBetter ==
    [][KeepsTValues =>
          pc' = "fit_done" /\ fit_result' = "Ok" /\ fit_segment' = fit_segment]_vars

\* the second turn of the loop is drawing variations although the first
\* turn has kept the chord-length t-values
C21_Witness ==
    /\ mode = "fit"
    /\ fit_call = "weak_varpro"
    /\ fit_points = AroundTriangle
    /\ fit_round = 2
    /\ pc = "fit_variations"
    /\ fit_t_values = <<QZero, Norm(1, 4), Norm(7, 16), Norm(3, 4), QOne>>
    /\ fit_prev_loss = residual_norm(fit_points, fit_t_values, fit_segment)

\* the running step ends the tolerance check at the head of a turn of
\* fit_cubic_bezier_alternating, and every sample is within tolerance
AlternatingConverged ==
    /\ mode = "fit"
    /\ fit_call = "alternating"
    /\ pc = "fit_search"
    /\ pc' # "fit_search"
    /\ fit_within'

ZeroIterations ==
    /\ FitEnded
    /\ fit_call \in {"alternating", "weak_varpro"}
    /\ fit_max_iterations = 0

\* C23: with max_iterations = 0 the alternating fit (either strategy) and
\* the weak-variable-projection fit update no t-value and return exactly
\* what the closed-form solve gives on the chord-length t-values.
C23_ZeroIterations ==
    ZeroIterations /\ Len(fit_points) >= 4 =>
        /\ fit_round = 0
        /\ fit_t_values = estimate_t_values_chord_length(fit_points)
        /\ fit_segment = least_square_solve_p_given_t(fit_points, fit_t_values)
        /\ outcome = "value"
        /\ fit_result = IF fit_segment = FitError THEN "Err" ELSE "Ok"

\* the weak-variable-projection fit of the five samples round the triangle
\* has returned the chord-length fit
C23_Witness ==
    /\ ZeroIterations
    /\ fit_call = "weak_varpro"
    /\ fit_points = AroundTriangle
    /\ fit_t_values = <<QZero, Norm(1, 4), Norm(7, 16), Norm(3, 4), QOne>>
    /\ fit_segment = LeastSquaresSegment(fit_points, fit_t_values)
    /\ fit_result = "Ok"

\* the squared distance between two points
SquaredDistance(p, q) ==
    QAdd(QMul(QSub(p[1], q[1]), QSub(p[1], q[1])), QMul(QSub(p[2], q[2]), QSub(p[2], q[2])))

\* reorder_control_points has returned
Reordered == mode = "reorder" /\ pc = "reordered"

\* the first sample is strictly closer to the computed p4 than to p1
CloserToLast ==
    QLt(SquaredDistance(ro_start_point, ro_points[4]),
        SquaredDistance(ro_start_point, ro_points[1]))

\* C24: the four computed control points are returned in reversed order
\* exactly when the first sample is strictly closer to the computed p4 than
\* to the computed p1, and in the computed order otherwise.
C24_ReversedIffCloserToLast ==
    Reordered =>
        ro_out = IF CloserToLast
                 THEN <<ro_points[4], ro_points[3], ro_points[2], ro_points[1]>>
                 ELSE ro_points

\* a reversal has happened, and it shows: the first sample is the computed p4
C24_Witness ==
    /\ Reordered
    /\ ro_points = <<Pt(1, 0), Pt(1, 1), Pt(0, 1), Pt(0, 0)>>
    /\ ro_start_point = Pt(0, 0)
    /\ ro_out = <<Pt(0, 0), Pt(0, 1), Pt(1, 1), Pt(1, 0)>>

\* C25: temporary hand mode is transparent: while Space is down the current
\* tool is Hand whatever tool keys are pressed, and after a frame that
\* released Space the current tool is again the one Space was pressed on.
C25_TemporaryHandTransparent ==
    mode = "tool" =>
        /\ kb_space => current_tool = "Hand"
        /\ (space_just_released /\ ~kb_space) => current_tool = tool_at_space_press

\* Space went down and up within one frame while Select was current: the
\* release is dropped, Hand stays and the tool keys are locked
C25_Witness ==
    /\ mode = "tool"
    /\ space_just_pressed
    /\ space_just_released
    /\ ~kb_space
    /\ tool_at_space_press = "Select"
    /\ current_tool = "Hand"
    /\ is_space_held

\* the selection system has run in this frame
SelectionRan == mode = "tool" /\ pc = "tool"

\* C29: after a frame in which the selection system ran with a current tool
\* that is neither Select nor Merge, temporary hand mode included,
\* selected_points is empty.
C29_SelectionOnlyInSelectAndMerge ==
    (SelectionRan /\ current_tool \notin {"Select", "Merge"}) => selected_points = <<>>

\* a point was selected, Space switched to the temporary hand mode, and the
\* selection system emptied the selection
C29_Witness ==
    /\ SelectionRan
    /\ current_tool = "Hand"
    /\ is_space_held
    /\ previous_tool = "Select"
    /\ selected_points = <<>>
    /\ world_curves = <<<<1, 2, 3, 4>>>>

\* C26: between frames the curve-creation state holds 0 to 3 point entities;
\* it is Idle exactly when the list is empty and last_point_entity is None,
\* and CollectingPoints exactly when the list holds 1 to 3 entities.
C26_CreationStateShape ==
    mode = "create" =>
        /\ Len(curve_creation_point_entities) \in 0..3
        /\ curve_creation_state \in {"Idle", "CollectingPoints"}
        /\ (curve_creation_state = "Idle")
               = (curve_creation_point_entities = <<>> /\ last_point_entity = None)
        /\ (curve_creation_state = "CollectingPoints")
               = (Len(curve_creation_point_entities) \in 1..3)

\* three clicks are collected, the third one on the entity the first one hit
C26_Witness ==
    /\ mode = "create"
    /\ curve_creation_state = "CollectingPoints"
    /\ curve_creation_point_entities = <<1, 2, 1>>
    /\ last_point_entity = Some(1)

\* no two consecutive entities of the list are equal
NoTwoConsecutiveEqual(entities) ==
    \A i \in 1..(Len(entities) - 1) : entities[i] # entities[i + 1]

\* C27: while CreateCurve stays active a curve is spawned exactly in the
\* frame of the fourth accepted click and in no other frame; the spawned
\* curve holds the four collected entities in click order, no two
\* consecutive ones equal.
C27_SpawnOnFourthClick ==
    (mode = "create" /\ current_tool = "CreateCurve") =>
        /\ (cc_spawned # None) = (cc_accepted /\ Len(cc_clicks) = 4)
        /\ cc_spawned # None =>
               /\ cc_spawned = Some(cc_clicks)
               /\ NoTwoConsecutiveEqual(cc_clicks)

\* the fourth accepted click has spawned a curve that visits entity 1 twice
C27_Witness ==
    /\ mode = "create"
    /\ current_tool = "CreateCurve"
    /\ cc_accepted
    /\ cc_clicks = <<1, 2, 1, 3>>
    /\ cc_spawned = Some(<<1, 2, 1, 3>>)
    /\ curve_creation_state = "Idle"

\* the indices of the curve's points that the delete action found selected
SelectedOf(curve_entity) ==
    {r.point_index : r \in {del_selected[k] : k \in 1..Len(del_selected)}
                              \cap {r \in ControlPoints(del_curves) : r.curve_entity = curve_entity}}

\* the unselected points of a curve in their original order
RECURSIVE Unselected(_, _, _)
Unselected(point_entities, selected, i) ==
    IF i > Len(point_entities) THEN <<>>
    ELSE (IF (i - 1) \in selected THEN <<>> ELSE <<point_entities[i]>>)
             \o Unselected(point_entities, selected, i + 1)

\* C28: after a delete action no curve it touched is left with fewer than 2
\* control points: a curve whose points were all selected, or that would
\* keep fewer than 2 points, is despawned; every other touched curve keeps
\* exactly its unselected points in their original order; the selection is
\* empty afterwards.
C28_DeleteLeavesValidCurves ==
    (mode = "delete" /\ del_ran) =>
        /\ selected_points = <<>>
        /\ \A c \in DOMAIN del_curves :
               SelectedOf(c) # {} =>
                   LET rest == Unselected(del_curves[c], SelectedOf(c), 1)
                   IN  IF Len(rest) < 2
                       THEN c \notin DOMAIN world_curves
                       ELSE /\ c \in DOMAIN world_curves
                            /\ world_curves[c] = rest
                            /\ Len(world_curves[c]) >= 2

\* one delete action that despawns a curve whose points were all selected,
\* despawns one that would keep a single point, and shortens a third
C28_Witness ==
    /\ mode = "delete"
    /\ del_ran
    /\ del_curves = <<<<1, 2, 3>>, <<3, 4>>, <<4, 5>>>>
    /\ SelectedOf(1) = {1}
    /\ SelectedOf(2) = {0, 1}
    /\ SelectedOf(3) = {0}
    /\ DOMAIN world_curves = {1}
    /\ world_curves[1] = <<1, 3>>

\* the merge action got past its checks of the key and of the selection and
\* found at least two involved curves
MergeActed == mode = "merge" /\ mg_ran \in {"unresolved", "nothing merged", "merged"}

\* the positions of the involved curves, taken in the given order
InvolvedPositions(order) ==
    [k \in 1..Len(order) |-> resolve_positions(mg_curves[order[k]], mg_points)]

\* the single curves the involved curves chain into, over every order
ChainedCurves ==
    {chained[1] :
        chained \in {cs \in {merge_curves_sequentially(InvolvedPositions(order)) :
                                order \in ListsOf({mg_order[k] : k \in 1..Len(mg_order)})} :
                         Len(cs) = 1}}

\* the positions of the curves of the world that the action spawned
SpawnedCurves ==
    {resolve_positions(world_curves[c], world_points) :
        c \in DOMAIN world_curves \ DOMAIN mg_curves}

====
